---------------------------- MODULE Spec2Model ----------------------------
(***************************************************************************)
(* A model of ai-navigator's goal-execution engine:                        *)
(*   - SemanticIndexer (navigator/memory/semantic_indexer.py): the         *)
(*     in-memory store with add_to_memory, search_memory, clear_memory;    *)
(*   - WebNavigator (navigator/web_navigator.py): navigate_and_learn, the  *)
(*     step runner execute_step_with_code_generation, go_to_url,           *)
(*     execute_selenium_code, close_browser, and the capture of a request, *)
(*     process_and_store_api_request;                                      *)
(*   - OllamaClient.generate_text and _get_embedding                       *)
(*     (core/plugins/apis/ollama_client.py);                               *)
(*   - Navigator.perform_web_goal (navigator/orchestrator.py) and          *)
(*     SeleniumManager.close_driver and extract_page_content               *)
(*     (core/plugins/selenium_manager.py);                                 *)
(*   - navigate_web (main.py): goals started as background tasks on the    *)
(*     one Navigator of the process.                                       *)
(*                                                                         *)
(* A Python str is a sequence of pieces: single characters where the code  *)
(* looks inside the text (goals, plans), whole words where it only passes  *)
(* the text on (ids, error texts, code); '' is <<>> and + is \o. A list is *)
(* a sequence, a dict a set of <<key, value>> pairs, an optional dict      *)
(* argument a record [some, dict]. Every call to a collaborator (the model *)
(* service, the browser) is an input of the action that makes it: it       *)
(* returns one of a small set of values or raises.                         *)
(***************************************************************************)
EXTENDS Integers, Sequences, FiniteSets, TLC

VARIABLES
    memory,          \* WebNavigator.semantic_indexer.memory
    memResult,       \* the last store operation: its name, arguments, result,
                     \* and the answer of the embeddings endpoint if on record
    pc,              \* where the run stands
    entry,           \* the entry point of the run
    user_goal,       \* the goal of the run
    initial_plan,    \* perform_web_goal: the plan the planner returned
    plan,            \* navigate_and_learn: its plan argument
    plan_steps,      \* navigate_and_learn: the parsed steps
    step_index,      \* navigate_and_learn: index of the current step, from 1
    action_history,  \* WebNavigator.action_history
    current_url,     \* WebNavigator.current_url
    page_content,    \* WebNavigator.page_content
    driver,          \* SeleniumManager.driver
    selenium_code,   \* execute_step_with_code_generation: the generated code
    fixed_code,      \* execute_step_with_code_generation: the fixed code
    error,           \* the exception being handled: its text, where it rose
    attempt,         \* the executions and fix requests of the current step
    calls,           \* how often the run called teardown and recovery
    raised,          \* whether the entry point raised to its caller
    captured_apis,   \* WebNavigator.captured_apis
    db_rows,         \* the rows of the api_requests table
    capture,         \* the last process_and_store_api_request: its request,
                     \* what its collaborators did, the ids it called
                     \* add_to_memory with, what those calls returned and
                     \* the embeddings they computed
    runs,            \* the background tasks of navigate_web: for each, where
                     \* its perform_web_goal stands, its goal, whether it
                     \* raised
    adding           \* the add_to_memory calls on the store: for each, where
                     \* it stands, its arguments, the store it began on,
                     \* its embedding and what it returned

memVars == <<memory, memResult>>

navVars == <<pc, entry, user_goal, initial_plan, plan, plan_steps, step_index,
             action_history, current_url, page_content, driver, selenium_code,
             fixed_code, error, attempt, calls, raised>>

capVars == <<captured_apis, db_rows, capture>>

runVars == <<runs, adding>>

vars == <<memVars, navVars, capVars, runVars>>

-----------------------------------------------------------------------------
(* Bounds of the model *)

\* Length of the default embedding ([0.0] * 768 in the source).
EmbDim == 2

-----------------------------------------------------------------------------
(* Small helpers *)

Min(a, b) == IF a < b THEN a ELSE b

Max(a, b) == IF a > b THEN a ELSE b

Abs(n) == IF n < 0 THEN -n ELSE n

RECURSIVE Gcd(_, _)
Gcd(a, b) == IF b = 0 THEN a ELSE Gcd(b, a % b)

\* seq[:k] of Python, for any integer k.
Slice(seq, k) ==
    IF k >= 0 THEN SubSeq(seq, 1, Min(k, Len(seq)))
    ELSE SubSeq(seq, 1, Max(Len(seq) + k, 0))

-----------------------------------------------------------------------------
(* SemanticIndexer: embeddings *)

ZeroVec == [i \in 1..EmbDim |-> 0]

\* Embeddings the model service may return in the embedding field; <<1, 0>>
\* and <<2, 0>> have the same direction. ListText is the list it may return
\* as text in the response field; its length differs from the others'.
ListText == <<1>>

Vectors == {<<1, 0>>, <<2, 0>>}

\* What generate_text(text, model_type="embedding") does, as seen by
\* SemanticIndexer._get_embedding: it raises, returns something that is
\* no dict, or returns a dict. In the dict, embedding is absent ("none"),
\* a list of numbers (a sequence, possibly empty) or something else
\* ("invalid"); response is absent, a text without brackets, a bracketed
\* text json cannot parse, or a stringified list of numbers.
EmbeddingFields == {[tag |-> "none", list |-> <<>>],
                    [tag |-> "invalid", list |-> <<>>],
                    [tag |-> "list", list |-> <<>>]}
                   \cup {[tag |-> "list", list |-> v] : v \in Vectors}

ResponseFields == {[tag |-> "absent", list |-> <<>>],
                   [tag |-> "text", list |-> <<>>],
                   [tag |-> "unparsable", list |-> <<>>],
                   [tag |-> "listtext", list |-> ListText]}

Payloads ==
    {[kind |-> "raise", embedding |-> [tag |-> "none", list |-> <<>>],
      response |-> [tag |-> "absent", list |-> <<>>]],
     [kind |-> "nondict", embedding |-> [tag |-> "none", list |-> <<>>],
      response |-> [tag |-> "absent", list |-> <<>>]]}
    \cup {[kind |-> "dict", embedding |-> e, response |-> r] :
            e \in EmbeddingFields \ {[tag |-> "none", list |-> <<>>]},
            r \in {[tag |-> "absent", list |-> <<>>]}}
    \cup {[kind |-> "dict", embedding |-> [tag |-> "none", list |-> <<>>],
            response |-> r] : r \in ResponseFields}

\* _get_embedding(text), given what the embedding call does.
GetEmbedding(text, payload) ==
    IF text = <<>> THEN ZeroVec
    ELSE IF payload.kind = "raise" THEN ZeroVec
    ELSE IF payload.kind # "dict" THEN ZeroVec
    ELSE LET first == payload.embedding
             embedding ==
                 IF first.tag = "none" /\ payload.response.tag = "listtext"
                 THEN [tag |-> "list", list |-> payload.response.list]
                 ELSE first
         IN  IF embedding.tag = "none" THEN ZeroVec
             ELSE IF embedding.tag = "list" THEN embedding.list
             ELSE ZeroVec

-----------------------------------------------------------------------------
(* OllamaClient: the embeddings endpoint *)

NoField == [tag |-> "none", list |-> <<>>]

NoResponse == [tag |-> "absent", list |-> <<>>]

\* What the request to the embeddings endpoint does: it raises (a timeout,
\* a refused connection, a body that is no JSON), or answers with JSON that
\* is a dict with an error key ("error"), a dict without one ("dict", with
\* the embedding and response fields it holds), a list ("list"), or a
\* number or null ("number").
Answers ==
    {[kind |-> k, embedding |-> NoField, response |-> NoResponse] :
        k \in {"raise", "error", "list", "number"}}
    \cup {p \in Payloads : p.kind = "dict"}

\* The seed that md5 gives for a text: a function of the text alone.
Md5Seed(text) == Len(text)

\* The vector drawn from random.seed(seed) and divided by its magnitude: a
\* vector of length one that the seed fixes.
PseudoEmbedding(text) ==
    [i \in 1..EmbDim |-> IF i = (Md5Seed(text) % EmbDim) + 1 THEN 1 ELSE 0]

\* OllamaClient._get_embedding(text, model), which is what
\* generate_text(text, model_type="embedding") returns: the payload that
\* SemanticIndexer._get_embedding sees. `"error" in result` raises on a
\* number or null, is false on a list, and every exception ends in the
\* zero vector.
OllamaGetEmbedding(text, answer) ==
    IF answer.kind = "raise" \/ answer.kind = "number"
    THEN [kind |-> "dict",
          embedding |-> [tag |-> "list", list |-> ZeroVec],
          response |-> NoResponse]
    ELSE IF answer.kind = "error"
    THEN [kind |-> "dict",
          embedding |-> [tag |-> "list", list |-> PseudoEmbedding(text)],
          response |-> NoResponse]
    ELSE IF answer.kind = "list"
    THEN [kind |-> "nondict", embedding |-> NoField, response |-> NoResponse]
    ELSE answer

\* SemanticIndexer._get_embedding(text) with an OllamaClient as its client.
ClientEmbedding(text, answer) ==
    GetEmbedding(text, OllamaGetEmbedding(text, answer))


-----------------------------------------------------------------------------
(* SemanticIndexer: cosine similarity *)

RECURSIVE SumSeq(_)
SumSeq(s) == IF s = <<>> THEN 0 ELSE Head(s) + SumSeq(Tail(s))

DotProduct(vec1, vec2) ==
    SumSeq([i \in 1..Len(vec1) |-> vec1[i] * vec2[i]])

\* A similarity score is kept exactly, as the fraction num/den in lowest
\* terms of sign(c) * c * c for the cosine c the source computes as
\* dot / (sqrt(m1) * sqrt(m2)): c -> sign(c) * c * c is strictly
\* increasing and fixes -1, 0 and 1, so order and ties are those of c.
ScoreZero == [num |-> 0, den |-> 1]

Fraction(n, d) ==
    LET g == Gcd(Abs(n), d) IN [num |-> n \div g, den |-> d \div g]

\* The similarity without the check of the lengths: zip stops at the
\* shorter vector.
CosineZipped(vec1, vec2) ==
    IF vec1 = <<>> \/ vec2 = <<>> THEN ScoreZero
    ELSE LET common == Min(Len(vec1), Len(vec2))
             dot_product == DotProduct(SubSeq(vec1, 1, common),
                                       SubSeq(vec2, 1, common))
             magnitude_vec1_sq == DotProduct(vec1, vec1)
             magnitude_vec2_sq == DotProduct(vec2, vec2)
         IN  IF magnitude_vec1_sq = 0 \/ magnitude_vec2_sq = 0 THEN ScoreZero
             ELSE Fraction((IF dot_product < 0 THEN -1 ELSE 1)
                               * dot_product * dot_product,
                           magnitude_vec1_sq * magnitude_vec2_sq)

\* _cosine_similarity(vec1, vec2)
CosineSimilarity(vec1, vec2) ==
    IF vec1 = <<>> \/ vec2 = <<>> THEN ScoreZero
    ELSE IF Len(vec1) # Len(vec2) THEN ScoreZero
    ELSE LET dot_product == DotProduct(vec1, vec2)
             magnitude_vec1_sq == DotProduct(vec1, vec1)
             magnitude_vec2_sq == DotProduct(vec2, vec2)
         IN  IF magnitude_vec1_sq = 0 \/ magnitude_vec2_sq = 0 THEN ScoreZero
             ELSE Fraction((IF dot_product < 0 THEN -1 ELSE 1)
                               * dot_product * dot_product,
                           magnitude_vec1_sq * magnitude_vec2_sq)

ScoreLess(a, b) == a.num * b.den < b.num * a.den

-----------------------------------------------------------------------------
(* SemanticIndexer: cosine similarity in floating point *)

\* A Python float is a binary floating-point number; the model keeps
\* MantissaBits significant bits where the float keeps 53, and rounds to
\* nearest, ties to even, as the float does. A value is the exact fraction
\* [num, den] it stands for. Exponents have no bounds: no overflow, no
\* underflow.
MantissaBits == 5

RECURSIVE Pow2(_)
Pow2(n) == IF n = 0 THEN 1 ELSE 2 * Pow2(n - 1)

Exponents == (0 - (MantissaBits + 4))..4

\* The integer nearest to n/d, ties to even; n >= 0 and d > 0.
RoundHalfEven(n, d) ==
    LET q == n \div d
        r == n % d
    IN  IF 2 * r > d THEN q + 1
        ELSE IF 2 * r = d THEN q + (q % 2)
        ELSE q

\* The float nearest to n/d, for n > 0 and d > 0.
RoundFloat(n, d) ==
    LET scaled(e) == IF e < 0 THEN [num |-> n * Pow2(0 - e), den |-> d]
                     ELSE [num |-> n, den |-> d * Pow2(e)]
        e == CHOOSE x \in Exponents :
                 /\ Pow2(MantissaBits - 1) * scaled(x).den <= scaled(x).num
                 /\ scaled(x).num < Pow2(MantissaBits) * scaled(x).den
        mantissa == RoundHalfEven(scaled(e).num, scaled(e).den)
    IN  IF e < 0 THEN Fraction(mantissa, Pow2(0 - e))
        ELSE Fraction(mantissa * Pow2(e), 1)

\* math.sqrt(m) for an integer m > 0: the float nearest to the root.
FloatSqrt(m) ==
    LET scaled(e) == IF e < 0 THEN [num |-> m * Pow2(0 - 2 * e), den |-> 1]
                     ELSE [num |-> m, den |-> Pow2(2 * e)]
        e == CHOOSE x \in Exponents :
                 /\ Pow2(2 * (MantissaBits - 1)) * scaled(x).den <= scaled(x).num
                 /\ scaled(x).num < Pow2(2 * MantissaBits) * scaled(x).den
        mantissa ==
            CHOOSE k \in Pow2(MantissaBits - 1)..Pow2(MantissaBits) :
                /\ (2 * k - 1) * (2 * k - 1) * scaled(e).den
                       <= 4 * scaled(e).num
                /\ 4 * scaled(e).num
                       < (2 * k + 1) * (2 * k + 1) * scaled(e).den
    IN  IF e < 0 THEN Fraction(mantissa, Pow2(0 - e))
        ELSE Fraction(mantissa * Pow2(e), 1)

\* a * b and a / b of two positive floats.
FloatMul(a, b) == RoundFloat(a.num * b.num, a.den * b.den)

FloatDiv(a, b) == RoundFloat(a.num * b.den, a.den * b.num)

\* The cosine with the first vector's magnitude taken for both.
CosineByOneMagnitude(vec1, vec2) ==
    IF vec1 = <<>> \/ vec2 = <<>> THEN ScoreZero
    ELSE IF Len(vec1) # Len(vec2) THEN ScoreZero
    ELSE LET dot_product == DotProduct(vec1, vec2)
             magnitude_vec1_sq == DotProduct(vec1, vec1)
         IN  IF magnitude_vec1_sq = 0 \/ DotProduct(vec2, vec2) = 0
             THEN ScoreZero
             ELSE IF dot_product = 0 THEN ScoreZero
             ELSE LET quotient ==
                          FloatDiv([num |-> Abs(dot_product), den |-> 1],
                                   FloatMul(FloatSqrt(magnitude_vec1_sq),
                                            FloatSqrt(magnitude_vec1_sq)))
                  IN  [num |-> (IF dot_product < 0 THEN -1 ELSE 1) * quotient.num,
                       den |-> quotient.den]

\* _cosine_similarity(vec1, vec2) as a float, for vectors of whole numbers:
\* the products and sums are whole numbers that the float holds exactly;
\* the two roots, their product and the quotient are rounded.
CosineFloat(vec1, vec2) ==
    IF vec1 = <<>> \/ vec2 = <<>> THEN ScoreZero
    ELSE IF Len(vec1) # Len(vec2) THEN ScoreZero
    ELSE LET dot_product == DotProduct(vec1, vec2)
             magnitude_vec1_sq == DotProduct(vec1, vec1)
             magnitude_vec2_sq == DotProduct(vec2, vec2)
         IN  IF magnitude_vec1_sq = 0 \/ magnitude_vec2_sq = 0 THEN ScoreZero
             ELSE IF dot_product = 0 THEN ScoreZero
             ELSE LET quotient ==
                          FloatDiv([num |-> Abs(dot_product), den |-> 1],
                                   FloatMul(FloatSqrt(magnitude_vec1_sq),
                                            FloatSqrt(magnitude_vec2_sq)))
                  IN  [num |-> (IF dot_product < 0 THEN -1 ELSE 1) * quotient.num,
                       den |-> quotient.den]

-----------------------------------------------------------------------------
(* SemanticIndexer: the store *)

\* The optional metadata argument: None, or a dict.
NoneMeta == [some |-> FALSE, dict |-> {}]

Meta(d) == [some |-> TRUE, dict |-> d]

\* metadata or {}
MetaOrEmpty(metadata) == IF metadata.some THEN metadata.dict ELSE {}

HasId(mem, item_id) == \E k \in 1..Len(mem) : mem[k].id = item_id

\* add_to_memory without the check for an id already stored.
AddWithoutIdCheck(mem, item_id, text_content, metadata, payload) ==
    IF item_id = <<>> \/ text_content = <<>>
    THEN [ret |-> FALSE, memory |-> mem, embedding |-> <<>>]
    ELSE LET embedding_vector == GetEmbedding(text_content, payload)
         IN  IF embedding_vector = <<>>
             THEN [ret |-> FALSE, memory |-> mem, embedding |-> embedding_vector]
             ELSE [ret |-> TRUE,
                   memory |-> Append(mem, [id |-> item_id,
                                           text |-> text_content,
                                           embedding |-> embedding_vector,
                                           metadata |-> MetaOrEmpty(metadata)]),
                   embedding |-> embedding_vector]

\* add_to_memory without the check for an empty id or text.
AddWithoutEmptyCheck(mem, item_id, text_content, metadata, payload) ==
    LET embedding_vector == GetEmbedding(text_content, payload)
    IN  IF embedding_vector = <<>>
        THEN [ret |-> FALSE, memory |-> mem, embedding |-> embedding_vector]
        ELSE IF HasId(mem, item_id)
        THEN [ret |-> FALSE, memory |-> mem, embedding |-> embedding_vector]
        ELSE [ret |-> TRUE,
              memory |-> Append(mem, [id |-> item_id,
                                      text |-> text_content,
                                      embedding |-> embedding_vector,
                                      metadata |-> MetaOrEmpty(metadata)]),
              embedding |-> embedding_vector]

\* add_to_memory(item_id, text_content, metadata), given what the
\* embedding call does: the value returned, the store afterwards, and the
\* embedding computed (<<>> when none was asked for).
AddToMemoryResult(mem, item_id, text_content, metadata, payload) ==
    IF item_id = <<>> \/ text_content = <<>>
    THEN [ret |-> FALSE, memory |-> mem, embedding |-> <<>>]
    ELSE LET embedding_vector == GetEmbedding(text_content, payload)
         IN  IF embedding_vector = <<>>
             THEN [ret |-> FALSE, memory |-> mem, embedding |-> embedding_vector]
             ELSE IF HasId(mem, item_id)
             THEN [ret |-> FALSE, memory |-> mem, embedding |-> embedding_vector]
             ELSE [ret |-> TRUE,
                   memory |-> Append(mem, [id |-> item_id,
                                           text |-> text_content,
                                           embedding |-> embedding_vector,
                                           metadata |-> MetaOrEmpty(metadata)]),
                   embedding |-> embedding_vector]

\* The copy of a stored item that search_memory returns, with its score.
Scored(item, similarity) ==
    [id |-> item.id, text |-> item.text, embedding |-> item.embedding,
     metadata |-> item.metadata, similarity_score |-> similarity]

\* The loop of search_memory: every stored item whose embedding is a
\* non-empty list, in store order, with its similarity to the query.
ScoredItems(mem, query_embedding) ==
    LET kept == SelectSeq(mem, LAMBDA item : item.embedding # <<>>)
    IN  [k \in 1..Len(kept) |->
            Scored(kept[k], CosineSimilarity(query_embedding, kept[k].embedding))]

RemoveAt(s, k) == SubSeq(s, 1, k - 1) \o SubSeq(s, k + 1, Len(s))

\* Index of the first entry of s with the greatest score.
FirstMax(s) ==
    CHOOSE k \in 1..Len(s) :
        /\ \A j \in 1..Len(s) :
              ~ScoreLess(s[k].similarity_score, s[j].similarity_score)
        /\ \A j \in 1..(k - 1) :
              ScoreLess(s[j].similarity_score, s[k].similarity_score)

\* Index of the last entry of s with the greatest score.
LastMax(s) ==
    CHOOSE k \in 1..Len(s) :
        /\ \A j \in 1..Len(s) :
              ~ScoreLess(s[k].similarity_score, s[j].similarity_score)
        /\ \A j \in (k + 1)..Len(s) :
              ScoreLess(s[j].similarity_score, s[k].similarity_score)

\* The entry that comes first in the sorted list.
SortPick(s) == FirstMax(s)

\* scored_items.sort(key=lambda x: x['similarity_score'], reverse=True):
\* list.sort is stable, also with reverse=True, so among equal scores the
\* earlier entry stays first.
RECURSIVE SortByScoreDesc(_)
SortByScoreDesc(s) ==
    IF s = <<>> THEN <<>>
    ELSE LET k == SortPick(s)
         IN  <<s[k]>> \o SortByScoreDesc(RemoveAt(s, k))

\* search_memory(query_text, top_k), given what the embedding call does.
SearchMemoryResult(mem, query_text, top_k, payload) ==
    IF mem = <<>> THEN <<>>
    ELSE IF query_text = <<>> THEN <<>>
    ELSE LET query_embedding == GetEmbedding(query_text, payload)
         IN  IF query_embedding = <<>> THEN <<>>
             ELSE Slice(SortByScoreDesc(ScoredItems(mem, query_embedding)),
                        top_k)

-----------------------------------------------------------------------------
(* Text operations of Python, on texts kept character by character *)

Uppercase ==
    <<"A", "B", "C", "D", "E", "F", "G", "H", "I", "J", "K", "L", "M",
      "N", "O", "P", "Q", "R", "S", "T", "U", "V", "W", "X", "Y", "Z">>

Lowercase ==
    <<"a", "b", "c", "d", "e", "f", "g", "h", "i", "j", "k", "l", "m",
      "n", "o", "p", "q", "r", "s", "t", "u", "v", "w", "x", "y", "z">>

LowerChar(c) ==
    IF \E k \in 1..Len(Uppercase) : Uppercase[k] = c
    THEN Lowercase[CHOOSE k \in 1..Len(Uppercase) : Uppercase[k] = c]
    ELSE c

\* text.lower()
Lower(text) == [k \in 1..Len(text) |-> LowerChar(text[k])]

\* text.startswith(prefix)
StartsWith(text, prefix) ==
    Len(prefix) <= Len(text) /\ SubSeq(text, 1, Len(prefix)) = prefix

\* sub in text
Contains(text, sub) ==
    \E k \in 1..(Len(text) - Len(sub) + 1) :
        SubSeq(text, k, k + Len(sub) - 1) = sub

Whitespace == {" ", "\t", "\n", "\r"}

RECURSIVE LStrip(_)
LStrip(text) ==
    IF text # <<>> /\ Head(text) \in Whitespace THEN LStrip(Tail(text))
    ELSE text

RECURSIVE RStrip(_)
RStrip(text) ==
    IF text # <<>> /\ text[Len(text)] \in Whitespace
    THEN RStrip(SubSeq(text, 1, Len(text) - 1))
    ELSE text

\* text.strip()
Strip(text) == RStrip(LStrip(text))

\* text.split(sep) for a one-character sep: the pieces between the
\* separators, empty pieces included.
RECURSIVE Split(_, _)
Split(text, sep) ==
    IF \E k \in 1..Len(text) : text[k] = sep
    THEN LET k == CHOOSE j \in 1..Len(text) :
                      text[j] = sep /\ \A h \in 1..(j - 1) : text[h] # sep
         IN  <<SubSeq(text, 1, k - 1)>>
                 \o Split(SubSeq(text, k + 1, Len(text)), sep)
    ELSE <<text>>

\* text.replace(sub, ""): every occurrence of sub, left to right, removed.
RECURSIVE Remove(_, _)
Remove(text, sub) ==
    IF text = <<>> THEN <<>>
    ELSE IF StartsWith(text, sub)
    THEN Remove(SubSeq(text, Len(sub) + 1, Len(text)), sub)
    ELSE <<Head(text)>> \o Remove(Tail(text), sub)

\* text.replace(" ", "+")
RECURSIVE SpacesToPlus(_)
SpacesToPlus(text) ==
    IF text = <<>> THEN <<>>
    ELSE <<IF Head(text) = " " THEN "+" ELSE Head(text)>>
             \o SpacesToPlus(Tail(text))

-----------------------------------------------------------------------------
(* The browser: SeleniumManager.driver and what a command does to it *)

\* None, for the Optional[str] fields current_url and page_content.
NoneText == <<"<None>">>

\* bool(text) for an Optional[str]
Truthy(text) == text # NoneText /\ text # <<>>

DigitChars == <<"0", "1", "2", "3", "4", "5", "6", "7", "8", "9">>

\* str(n) for n >= 0
RECURSIVE IntText(_)
IntText(n) ==
    IF n < 10 THEN <<DigitChars[n + 1]>>
    ELSE IntText(n \div 10) \o <<DigitChars[(n % 10) + 1]>>

\* SeleniumManager.driver is None. Besides the page it shows, a driver
\* keeps the commands it was given: driver.get(url) and the code run on it.
\* live: the field holds a driver; quit: driver.quit() was called on it.
NoDriver == [live |-> FALSE, quit |-> FALSE, current_url |-> <<>>,
             page_source |-> <<>>, title |-> <<>>, commands |-> <<>>]

\* The driver create_driver() returns: a browser showing its start page.
FreshDriver == [live |-> TRUE, quit |-> FALSE, current_url |-> <<"data:,">>,
                page_source |-> <<"<html></html>">>, title |-> <<>>,
                commands |-> <<>>]

\* The driver after it was given a command, whatever came of it.
Issued(d, name, argument) ==
    [d EXCEPT !.commands = Append(@, [name |-> name, argument |-> argument])]

\* The driver after driver.get(url) returned.
Visit(d, url) ==
    [live |-> TRUE, quit |-> d.quit, current_url |-> url,
     page_source |-> <<"<html>">> \o url \o <<"</html>">>,
     title |-> <<"Title of ">> \o url,
     commands |-> Issued(d, "get", url).commands]

\* The page a click or a submitted form may lead to.
Landed(d) ==
    [live |-> TRUE, quit |-> d.quit,
     current_url |-> d.current_url \o <<"/next">>,
     page_source |-> <<"<html>next</html>">>, title |-> <<"Next">>,
     commands |-> d.commands]

Errors == {<<"E1">>, <<"E2">>}

\* What the embedding call does during a run.
RunPayloads ==
    {[kind |-> "dict", embedding |-> [tag |-> "list", list |-> v],
      response |-> [tag |-> "absent", list |-> <<>>]] : v \in {<<1, 0>>, <<>>}}

\* SeleniumManager.close_driver(), given whether driver.quit() raises: the
\* driver field afterwards.
CloseDriver(d, quit_raises) == NoDriver

\* The WebNavigator fields a browser action reads and writes.
NavState ==
    [driver |-> driver, current_url |-> current_url,
     page_content |-> page_content, action_history |-> action_history,
     memory |-> memory]

\* What a call of go_to_url may do: every call it makes returns ("ok"),
\* create_driver raises, driver.get raises, or reading driver.title for
\* the memory text raises. A driver that was quit raises on every command.
GoToUrlOutcomes(st) ==
    IF st.driver.live /\ st.driver.quit
    THEN {[kind |-> "get_raises", error |-> <<"E1">>]}
    ELSE {[kind |-> "ok", error |-> <<>>]}
         \cup {[kind |-> k, error |-> <<"E1">>] :
                 k \in (IF st.driver.live THEN {} ELSE {"create_raises"})
                         \cup {"get_raises", "title_raises"}}

\* go_to_url(url): the fields afterwards. It catches every exception.
GoToUrl(st, url, outcome, payload) ==
    LET created == IF st.driver.live THEN st.driver ELSE FreshDriver
        failed(state) ==
            [state EXCEPT !.action_history =
                 Append(@, <<"NAVIGATION ERROR: ">> \o outcome.error)]
        loaded == Visit(created, url)
        updated == [st EXCEPT !.driver = loaded,
                              !.current_url = loaded.current_url,
                              !.page_content = loaded.page_source]
    IN  IF outcome.kind = "create_raises" THEN failed(st)
        ELSE IF outcome.kind = "get_raises"
        THEN failed([st EXCEPT !.driver = Issued(created, "get", url)])
        ELSE IF outcome.kind = "title_raises" THEN failed(updated)
        ELSE [updated EXCEPT
                !.memory =
                    AddToMemoryResult(
                        @, <<"page_">> \o loaded.current_url,
                        <<"Visited page: ">> \o loaded.current_url
                            \o <<"\nPage Title: ">> \o loaded.title
                            \o <<"\nFirst 500 chars: ">>
                            \o Slice(loaded.page_source, 500),
                        Meta({<<"url", loaded.current_url>>,
                              <<"type", <<"webpage_visit">>>>}),
                        payload).memory,
                !.action_history =
                    Append(@, <<"NAVIGATION: Went to ">> \o loaded.current_url)]

\* What a call of execute_selenium_code may do: the code runs and leaves
\* the browser where it is ("ok") or on another page ("ok_moved"),
\* create_driver raises, or the code (or a read of the driver after it)
\* raises. On a driver that was quit the read of driver.current_url after
\* the code raises, if the code did not.
ExecuteOutcomes(st) ==
    (IF st.driver.live /\ st.driver.quit THEN {}
     ELSE {[kind |-> "ok", error |-> <<>>],
           [kind |-> "ok_moved", error |-> <<>>]})
    \cup (IF st.driver.live THEN {}
          ELSE {[kind |-> "create_raises", error |-> <<"E1">>]})
    \cup {[kind |-> "raises", error |-> e] : e \in Errors}

ExecuteRaises(outcome) == outcome.kind \in {"create_raises", "raises"}

\* execute_selenium_code(code_snippet): the fields afterwards; when
\* ExecuteRaises(outcome) the exception is raised again to the caller.
ExecuteSeleniumCode(st, code_snippet, outcome) ==
    LET created == Issued(IF st.driver.live THEN st.driver ELSE FreshDriver,
                          "exec", code_snippet)
        after == IF outcome.kind = "ok_moved" THEN Landed(created)
                 ELSE created
    IN  IF outcome.kind = "create_raises"
        THEN [st EXCEPT !.action_history =
                  Append(@, <<"CODE EXECUTION ERROR: ">> \o outcome.error)]
        ELSE IF outcome.kind = "raises"
        THEN [st EXCEPT !.driver = created,
                        !.action_history =
                            Append(@, <<"CODE EXECUTION ERROR: ">>
                                         \o outcome.error)]
        ELSE [st EXCEPT !.driver = after,
                        !.current_url = after.current_url,
                        !.page_content = after.page_source,
                        !.action_history =
                            Append(@, <<"CODE EXECUTION: Success">>)]

-----------------------------------------------------------------------------
(* navigate_and_learn: parsing the plan, classifying goals and steps *)

\* The optional plan argument: None, or a text.
NonePlan == [some |-> FALSE, text |-> <<>>]

SomePlan(text) == [some |-> TRUE, text |-> text]

\* plan or ""
PlanOrEmpty(p) == IF p.some THEN p.text ELSE <<>>

\* The lines of the plan as they are, blank ones included.
ParsePlanUntrimmed(p) == Split(PlanOrEmpty(p), "\n")

\* [step.strip() for step in (plan or "").split("\n") if step.strip()]
ParsePlan(p) ==
    LET lines == Split(PlanOrEmpty(p), "\n")
        stripped == [k \in 1..Len(lines) |-> Strip(lines[k])]
    IN  SelectSeq(stripped, LAMBDA step : step # <<>>)

TermSearch ==
    <<"s", "e", "a", "r", "c", "h">>

TermFind ==
    <<"f", "i", "n", "d">>

TermLookUp ==
    <<"l", "o", "o", "k", " ", "u", "p">>

TermGoogle ==
    <<"g", "o", "o", "g", "l", "e">>

TermCheck ==
    <<"c", "h", "e", "c", "k">>

TriggerTerms == {TermSearch, TermFind, TermLookUp, TermGoogle, TermCheck}

\* Every goal that says anything taken for a search.
HasAnyIntent(goal) == goal # <<>>

\* any(term in user_goal.lower() for term in [...])
HasSearchIntent(goal) == \E term \in TriggerTerms : Contains(Lower(goal), term)

\* The lower-cased goal without its trigger terms, the blanks around what
\* is left kept.
SearchTermUnstripped(goal) ==
    Remove(Remove(Remove(Remove(Remove(Lower(goal), TermSearch),
                                TermFind), TermLookUp), TermGoogle),
           TermCheck)

\* user_goal.lower().replace("search", "").replace("find", "")
\*     .replace("look up", "").replace("google", "").replace("check", "")
\*     .strip()
SearchTerm(goal) ==
    Strip(Remove(Remove(Remove(Remove(Remove(Lower(goal), TermSearch),
                                      TermFind), TermLookUp), TermGoogle),
                 TermCheck))

WordNavigate ==
    <<"n", "a", "v", "i", "g", "a", "t", "e">>

WordGoTo ==
    <<"g", "o", " ", "t", "o">>

WordOpen ==
    <<"o", "p", "e", "n">>

WordHttp ==
    <<"h", "t", "t", "p">>

WordWww ==
    <<"w", "w", "w", ".">>

\* "navigate" in step.lower() or "go to" in step.lower()
\*     or "open" in step.lower()
IsNavigationStep(step) ==
    \/ Contains(Lower(step), WordNavigate)
    \/ Contains(Lower(step), WordGoTo)
    \/ Contains(Lower(step), WordOpen)

\* part.startswith("http") or "www." in part
IsUrlPart(part) == StartsWith(part, WordHttp) \/ Contains(part, WordWww)

\* The parts of step.split(" ") the loop over url_parts would navigate to;
\* it takes the first and breaks.
UrlParts(step) == SelectSeq(Split(step, " "), IsUrlPart)

DuckDuckGo ==
    <<"h", "t", "t", "p", "s", ":", "/", "/", "d", "u", "c", "k", "d",
      "u", "c", "k", "g", "o", ".", "c", "o", "m", "/">>

\* f"https://duckduckgo.com/?q={search_term.replace(' ', '+')}"
SearchUrl(search_term) ==
    DuckDuckGo \o <<"?", "q", "=">> \o SpacesToPlus(search_term)

\* The code of the default search, with {search_term} filled in.
SearchCode(search_term) ==
    <<"search_input = ... By.NAME, 'q' ... send_keys('">> \o search_term
        \o <<"') ... send_keys(Keys.RETURN)">>

-----------------------------------------------------------------------------
(* Inputs of a run *)

GoalSearchForCats ==
    <<"s", "e", "a", "r", "c", "h", " ", "f", "o", "r", " ", "c", "a",
      "t", "s">>

GoalBookAFlight ==
    <<"B", "o", "o", "k", " ", "a", " ", "f", "l", "i", "g", "h", "t">>

\* A goal whose trigger term is not in lower case.
GoalFindCats ==
    <<"F", "i", "n", "d", " ", "C", "a", "t", "s">>

Goals == {GoalSearchForCats, GoalBookAFlight, GoalFindCats}

PlanTwoSteps ==
    <<" ", " ", "\n", "S", "t", "e", "p", " ", "1", "\n", "\n", "S", "t",
      "e", "p", " ", "2", " ", " ", "\n">>

PlanNavigateThenClick ==
    <<"N", "a", "v", "i", "g", "a", "t", "e", " ", "t", "o", " ", "h",
      "t", "t", "p", ":", "/", "/", "e", "x", "a", "m", "p", "l", "e",
      ".", "c", "o", "m", " ", "n", "o", "w", "\n", "C", "l", "i", "c",
      "k", " ", "l", "o", "g", "i", "n">>

PlanOpenSettings ==
    <<"O", "p", "e", "n", " ", "s", "e", "t", "t", "i", "n", "g", "s">>

\* A step with two parts that look like a URL, then a navigation step
\* with none.
PlanGoToTwoUrls ==
    <<"G", "O", " ", "T", "O", " ", "h", "t", "t", "p", ":", "/", "/",
      "a", ".", "c", "o", " ", "w", "w", "w", ".", "b", ".", "c", "o",
      "\n", "O", "p", "e", "n", " ", "m", "e", "n", "u">>

\* A step whose URL follows a tab, not a space.
PlanOpenTab ==
    <<"O", "p", "e", "n", "\t", "h", "t", "t", "p", ":", "/", "/", "a",
      ".", "c", "o">>

\* The plan argument of a direct call of navigate_and_learn.
Plans == {NonePlan, SomePlan(<<" ", "\n">>), SomePlan(PlanTwoSteps),
          SomePlan(PlanNavigateThenClick), SomePlan(PlanOpenSettings),
          SomePlan(PlanGoToTwoUrls), SomePlan(PlanOpenTab)}

\* A call of the model service through TaskPlanner or CodeAssistant: it
\* returns a text or raises.
Returns(text) == [kind |-> "returns", text |-> text]

Raises(text) == [kind |-> "raises", text |-> text]

PlannerOutcomes ==
    {Returns(<<>>), Returns(PlanNavigateThenClick), Raises(<<"E1">>)}

GenerateOutcomes == {Returns(<<"generated code">>), Raises(<<"E1">>)}

FixOutcomes == {Returns(<<"fixed code">>), Raises(<<"E2">>)}

AnalyzeOutcomes == {Returns(<<>>), Returns(<<"analysis">>), Raises(<<"E1">>)}

HandleErrorOutcomes == {Returns(<<"recovery plan">>), Raises(<<"E2">>)}

SummaryOutcomes == {Returns(<<"summary">>), Raises(<<"E1">>)}

-----------------------------------------------------------------------------
(* SemanticIndexer: operations on one store *)

ItemIds == {<<>>, <<"a">>, <<"b">>}

Texts == {<<>>, <<"hello">>, <<"hello world">>}

Metas == {NoneMeta, Meta({<<"type", <<"note">>>>})}

Queries == {<<>>, <<"hello">>}

TopKs == {-1, 0, 1, 2, 5}

\* No answer of the embeddings endpoint is on record.
NoAnswer == [kind |-> "none", embedding |-> NoField, response |-> NoResponse]

NoResult ==
    [op |-> "none", item_id |-> <<>>, text |-> <<>>, embedding |-> <<>>,
     ret |-> FALSE, top_k |-> 0, result |-> <<>>, service |-> NoAnswer]

InitMem ==
    /\ memory = <<>>
    /\ memResult = NoResult

AddToMemory(item_id, text_content, metadata, payload) ==
    LET r == AddToMemoryResult(memory, item_id, text_content, metadata, payload)
    IN  /\ memory' = r.memory
        /\ memResult' = [op |-> "add", item_id |-> item_id,
                         text |-> text_content, embedding |-> r.embedding,
                         ret |-> r.ret, top_k |-> 0, result |-> <<>>,
                         service |-> NoAnswer]
        /\ UNCHANGED <<navVars, capVars, runVars>>

\* search_memory(query_text, top_k); the embedding of the query is kept
\* when one was computed.
SearchMemory(query_text, top_k, payload) ==
    /\ memory' = memory
    /\ memResult' = [op |-> "search", item_id |-> <<>>, text |-> query_text,
                     embedding |-> IF memory = <<>> \/ query_text = <<>>
                                   THEN <<>>
                                   ELSE GetEmbedding(query_text, payload),
                     ret |-> FALSE,
                     top_k |-> top_k,
                     result |-> SearchMemoryResult(memory, query_text, top_k,
                                                   payload),
                     service |-> NoAnswer]
    /\ UNCHANGED <<navVars, capVars, runVars>>

\* clear_memory()
ClearMemory ==
    /\ memory' = <<>>
    /\ memResult' = [NoResult EXCEPT !.op = "clear"]
    /\ UNCHANGED <<navVars, capVars, runVars>>

NextMem ==
    \/ \E item_id \in ItemIds, text_content \in Texts, metadata \in Metas,
          payload \in Payloads :
            AddToMemory(item_id, text_content, metadata, payload)
    \/ \E query_text \in Queries, top_k \in TopKs, payload \in Payloads :
            SearchMemory(query_text, top_k, payload)
    \/ ClearMemory

\* Stores of up to three items with embeddings of many directions, and
\* searches on them.
SearchIds == {<<"a">>, <<"b">>, <<"c">>}

SearchVectors == {<<1, 0>>, <<2, 0>>, <<-1, 0>>, <<1, 1>>}

SearchPayloads ==
    {[kind |-> "raise", embedding |-> [tag |-> "none", list |-> <<>>],
      response |-> [tag |-> "absent", list |-> <<>>]]}
    \cup {[kind |-> "dict", embedding |-> [tag |-> "list", list |-> v],
            response |-> [tag |-> "absent", list |-> <<>>]] :
            v \in SearchVectors}

NextSearch ==
    \/ \E item_id \in SearchIds, payload \in SearchPayloads :
            AddToMemory(item_id, <<"hello">>, NoneMeta, payload)
    \/ \E top_k \in TopKs, payload \in SearchPayloads :
            SearchMemory(<<"hello">>, top_k, payload)

-----------------------------------------------------------------------------
(* OllamaClient: generate_text *)

ModelTypes == {"general", "coding", "reasoning", "embedding", "vision"}

\* _get_model_for_type(model_type): the model asked, the general one for a
\* type that is not known.
GetModelForType(model_type) ==
    IF model_type = "coding" THEN "coding_model"
    ELSE IF model_type = "embedding" THEN "embedding_model"
    ELSE IF model_type = "reasoning" THEN "reasoning_model"
    ELSE "general_model"

\* What the request to the generate endpoint does: it times out
\* (httpx.ReadTimeout), raises something else (a refused connection, a
\* body that is no JSON), or answers with JSON, a dict with a response
\* text, a dict without one, or a list.
TextAnswers ==
    {[kind |-> "timeout", text |-> <<>>],
     [kind |-> "raise", text |-> <<"E1">>],
     [kind |-> "dict", text |-> <<"answer">>],
     [kind |-> "dict", text |-> <<>>],
     [kind |-> "list", text |-> <<>>]}

\* A text payload: the value generate_text returns for a text type.
TextPayload(kind, model, text) == [kind |-> kind, model |-> model, response |-> text]

\* generate_text with its two except clauses left out: the exception of
\* the request reaches the caller.
GenerateTextUnguarded(prompt, model_type, answer) ==
    IF model_type = "embedding" /\ answer.kind # "raise"
    THEN OllamaGetEmbedding(prompt, answer)
    ELSE IF answer.kind \in {"timeout", "raise"}
    THEN [kind |-> "raised", model |-> GetModelForType(model_type),
          response |-> answer.text]
    ELSE TextPayload(answer.kind, GetModelForType(model_type), answer.text)

\* generate_text(prompt, model_type), given what the request does: the
\* value returned.
GenerateText(prompt, model_type, answer) ==
    IF model_type = "embedding" THEN OllamaGetEmbedding(prompt, answer)
    ELSE IF answer.kind = "timeout"
    THEN TextPayload("dict", GetModelForType(model_type),
                     <<"[Fallback response - Ollama timeout for ", model_type,
                       "]">>)
    ELSE IF answer.kind = "raise"
    THEN TextPayload("dict", GetModelForType(model_type),
                     <<"[Error response - ">> \o answer.text \o <<"]">>)
    ELSE TextPayload(answer.kind, GetModelForType(model_type), answer.text)

\* A call of generate_text for a text type.
GenerateTextCall(prompt, model_type, answer) ==
    /\ model_type # "embedding"
    /\ memory' = memory
    /\ memResult' = [NoResult EXCEPT
                        !.op = "generate_text", !.text = prompt,
                        !.item_id = <<model_type>>,
                        !.result = GenerateText(prompt, model_type, answer),
                        !.service = answer]
    /\ UNCHANGED <<navVars, capVars, runVars>>

\* A call of generate_text(prompt, model_type="embedding").
GenerateEmbeddingCall(prompt, answer) ==
    /\ memory' = memory
    /\ memResult' = [NoResult EXCEPT
                        !.op = "generate_embedding", !.text = prompt,
                        !.item_id = <<"embedding">>,
                        !.result = GenerateText(prompt, "embedding", answer),
                        !.service = answer]
    /\ UNCHANGED <<navVars, capVars, runVars>>

-----------------------------------------------------------------------------
(* SemanticIndexer with an OllamaClient: operations on one store *)

\* _get_embedding(text) alone, for a text and an answer of the endpoint.
Embed(text, answer) ==
    /\ memory' = memory
    /\ memResult' = [NoResult EXCEPT !.op = "embed", !.text = text,
                                     !.embedding = ClientEmbedding(text, answer),
                                     !.service = IF text = <<>> THEN NoAnswer
                                                 ELSE answer]
    /\ UNCHANGED <<navVars, capVars, runVars>>

\* add_to_memory(item_id, text_content), the endpoint answering `answer`.
AddWithClient(item_id, text_content, answer) ==
    LET r == AddToMemoryResult(memory, item_id, text_content, NoneMeta,
                               OllamaGetEmbedding(text_content, answer))
    IN  /\ memory' = r.memory
        /\ memResult' = [op |-> "add", item_id |-> item_id,
                         text |-> text_content, embedding |-> r.embedding,
                         ret |-> r.ret, top_k |-> 0, result |-> <<>>,
                         service |-> answer]
        /\ UNCHANGED <<navVars, capVars, runVars>>

\* search_memory(query_text, top_k), the endpoint answering `answer`.
SearchWithClient(query_text, top_k, answer) ==
    LET payload == OllamaGetEmbedding(query_text, answer)
    IN  /\ memory' = memory
        /\ memResult' = [op |-> "search", item_id |-> <<>>,
                         text |-> query_text,
                         embedding |-> IF memory = <<>> \/ query_text = <<>>
                                       THEN <<>>
                                       ELSE GetEmbedding(query_text, payload),
                         ret |-> FALSE,
                         top_k |-> top_k,
                         result |-> SearchMemoryResult(memory, query_text,
                                                       top_k, payload),
                         service |-> answer]
        /\ UNCHANGED <<navVars, capVars, runVars>>

NextEmbed ==
    \/ \E text \in Texts, answer \in Answers : Embed(text, answer)
    \/ \E text_content \in Texts, answer \in Answers :
            AddWithClient(<<"a">>, text_content, answer)
    \/ \E query_text \in Queries, answer \in Answers :
            SearchWithClient(query_text, 5, answer)
    \/ \E prompt \in Texts, model_type \in ModelTypes, answer \in TextAnswers :
            GenerateTextCall(prompt, model_type, answer)
    \/ \E prompt \in Texts, answer \in Answers :
            GenerateEmbeddingCall(prompt, answer)
    \/ ClearMemory


-----------------------------------------------------------------------------
(* A run: perform_web_goal, or navigate_and_learn called directly *)

NoError == [text |-> <<>>, source |-> "none"]

\* The executions and fix requests of execute_step_with_code_generation
\* for the current step: how many, how each ended, what the fix request
\* carried.
NoAttempt ==
    [executions |-> 0, fixes |-> 0, first |-> "none", fix |-> "none",
     second |-> "none", first_error |-> <<>>, second_error |-> <<>>,
     fix_code |-> <<>>, fix_error_message |-> <<>>]

\* How often the collaborators were called, and the recovery_plan that
\* handle_error returned.
NoCalls ==
    [close_browser |-> 0, quit |-> 0, handle_error |-> 0,
     recovery_plan |-> NoneText]

\* Navigator.__init__ and WebNavigator.__init__, before any call.
InitNav ==
    /\ pc = "idle"
    /\ entry = "none"
    /\ user_goal = <<>>
    /\ initial_plan = <<>>
    /\ plan = NonePlan
    /\ plan_steps = <<>>
    /\ step_index = 1
    /\ action_history = <<>>
    /\ current_url = NoneText
    /\ page_content = NoneText
    /\ driver = NoDriver
    /\ selenium_code = <<>>
    /\ fixed_code = <<>>
    /\ error = NoError
    /\ attempt = NoAttempt
    /\ calls = NoCalls
    /\ raised = FALSE

\* The fields set with the history cut to its last two entries.
SetNavStateTrimmed(st) ==
    /\ driver' = st.driver
    /\ current_url' = st.current_url
    /\ page_content' = st.page_content
    /\ action_history' =
           SubSeq(st.action_history, Max(1, Len(st.action_history) - 1),
                  Len(st.action_history))
    /\ memory' = st.memory

SetNavState(st) ==
    /\ driver' = st.driver
    /\ current_url' = st.current_url
    /\ page_content' = st.page_content
    /\ action_history' = st.action_history
    /\ memory' = st.memory

\* An exception in the try block reaching the caller at once, the finally
\* block skipped.
SkipFinally == "done"

\* perform_web_goal has try ... finally and no except: an exception in
\* the try block runs the finally block and then reaches the caller.
AfterPerformRaises == "finally"

\* The plan perform_web_goal hands to navigate_and_learn: the call is
\* navigate_and_learn(user_goal), so the plan parameter takes its default.
PlanArgument(planned) == NonePlan

\* Where control goes when navigate_and_learn returns.
AfterNavigate == IF entry = "perform" THEN "summarize" ELSE "done"

\* Where control goes when navigate_and_learn raises.
AfterNavigateRaises ==
    IF entry = "perform" THEN AfterPerformRaises ELSE "done"

\* perform_web_goal(user_goal) up to the call of navigate_and_learn: the
\* planner returns a plan or raises.
PerformWebGoal(goal, outcome) ==
    /\ pc = "idle"
    /\ entry' = "perform"
    /\ user_goal' = goal
    /\ IF outcome.kind = "raises"
       THEN /\ raised' = TRUE
            /\ error' = [text |-> outcome.text, source |-> "plan"]
            /\ pc' = AfterPerformRaises
            /\ UNCHANGED <<initial_plan, plan>>
       ELSE /\ initial_plan' = outcome.text
            /\ plan' = PlanArgument(outcome.text)
            /\ pc' = "navigate"
            /\ UNCHANGED <<raised, error>>
    /\ UNCHANGED <<capVars, runVars>>
    /\ UNCHANGED <<memVars, plan_steps, step_index, action_history,
                   current_url, page_content, driver, selenium_code,
                   fixed_code, attempt, calls>>

\* navigate_and_learn(user_goal, plan) called directly.
NavigateAndLearn(goal, p) ==
    /\ pc = "idle"
    /\ entry' = "navigate"
    /\ user_goal' = goal
    /\ plan' = p
    /\ pc' = "navigate"
    /\ UNCHANGED <<capVars, runVars>>
    /\ UNCHANGED <<memVars, initial_plan, plan_steps, step_index,
                   action_history, current_url, page_content, driver,
                   selenium_code, fixed_code, error, attempt, calls, raised>>

\* navigate_and_learn: the plan goes to memory, is parsed into steps, and
\* the empty plan of a search goal takes the default path.
ParseSteps(payload) ==
    /\ pc = "navigate"
    /\ memory' =
          IF plan.some /\ plan.text # <<>> /\ Strip(plan.text) # <<>>
          THEN AddToMemoryResult(
                   memory, <<"plan_">> \o IntText(Len(action_history)),
                   <<"Plan for goal: ">> \o user_goal \o <<"\n">> \o plan.text,
                   Meta({<<"type", <<"plan">>>>, <<"goal", user_goal>>}),
                   payload).memory
          ELSE memory
    /\ plan_steps' = ParsePlan(plan)
    /\ step_index' = 1
    /\ pc' = IF ParsePlan(plan) = <<>> /\ HasSearchIntent(user_goal)
             THEN "default_goto" ELSE "loop"
    /\ UNCHANGED <<capVars, runVars>>
    /\ UNCHANGED <<memResult, entry, user_goal, initial_plan, plan,
                   action_history, current_url, page_content, driver,
                   selenium_code, fixed_code, error, attempt, calls, raised>>

\* The default path: go_to_url("https://duckduckgo.com/").
DefaultGoTo(outcome, payload) ==
    /\ pc = "default_goto"
    /\ LET st == GoToUrl(NavState, DuckDuckGo, outcome, payload)
       IN  /\ SetNavState(st)
           /\ pc' = IF st.driver.live THEN "default_search" ELSE "loop"
    /\ UNCHANGED <<capVars, runVars>>
    /\ UNCHANGED <<memResult, entry, user_goal, initial_plan, plan,
                   plan_steps, step_index, selenium_code, fixed_code, error,
                   attempt, calls, raised>>

\* The default path: the search code is executed; when it raises, the
\* exception is caught and the (empty) step loop follows.
DefaultSearch(outcome) ==
    /\ pc = "default_search"
    /\ LET search_term == SearchTerm(user_goal)
           st == ExecuteSeleniumCode(NavState, SearchCode(search_term), outcome)
       IN  IF ExecuteRaises(outcome)
           THEN /\ SetNavState(st)
                /\ pc' = "loop"
           ELSE /\ SetNavState(
                      [st EXCEPT !.action_history =
                           Append(@, <<"DEFAULT: Searched for '">>
                                        \o search_term
                                        \o <<"' on DuckDuckGo">>)])
                /\ pc' = AfterNavigate
    /\ UNCHANGED <<capVars, runVars>>
    /\ UNCHANGED <<memResult, entry, user_goal, initial_plan, plan,
                   plan_steps, step_index, selenium_code, fixed_code, error,
                   attempt, calls, raised>>

-----------------------------------------------------------------------------
(* navigate_and_learn: the step loop, and the runner                       *)
(* execute_step_with_code_generation                                       *)

\* The first step of the plan, whatever the position of the loop.
FirstStep == plan_steps[1]

\* step, in "for i, step in enumerate(plan_steps)"
CurrentStep == plan_steps[step_index]

\* After the loop over url_parts: "if self.current_url is None" hands the
\* step to the runner, otherwise the step is over.
AfterUrlParts(url) == IF url = NoneText THEN "generate" ELSE "settle"

\* for i, step in enumerate(plan_steps): the step is recorded and
\* classified.
StepBegin ==
    /\ pc = "loop"
    /\ step_index <= Len(plan_steps)
    /\ action_history' = Append(action_history, <<"PLAN STEP: ">> \o CurrentStep)
    /\ attempt' = NoAttempt
    /\ pc' = IF IsNavigationStep(CurrentStep)
             THEN IF UrlParts(CurrentStep) # <<>> THEN "step_goto"
                  ELSE AfterUrlParts(current_url)
             ELSE "generate"
    /\ UNCHANGED <<capVars, runVars>>
    /\ UNCHANGED <<memVars, entry, user_goal, initial_plan, plan, plan_steps,
                   step_index, current_url, page_content, driver,
                   selenium_code, fixed_code, error, calls, raised>>

\* The loop is exhausted: navigate_and_learn returns.
LoopEnd ==
    /\ pc = "loop"
    /\ step_index > Len(plan_steps)
    /\ pc' = AfterNavigate
    /\ UNCHANGED <<capVars, runVars>>
    /\ UNCHANGED <<memVars, entry, user_goal, initial_plan, plan, plan_steps,
                   step_index, action_history, current_url, page_content,
                   driver, selenium_code, fixed_code, error, attempt, calls,
                   raised>>

\* A navigation step: go_to_url(part) for the first part that looks like
\* a URL.
StepGoTo(outcome, payload) ==
    /\ pc = "step_goto"
    /\ LET st == GoToUrl(NavState, UrlParts(CurrentStep)[1], outcome, payload)
       IN  /\ SetNavState(st)
           /\ pc' = AfterUrlParts(st.current_url)
    /\ UNCHANGED <<capVars, runVars>>
    /\ UNCHANGED <<memResult, entry, user_goal, initial_plan, plan,
                   plan_steps, step_index, selenium_code, fixed_code, error,
                   attempt, calls, raised>>

\* f"GENERATED CODE: {selenium_code[:100]}..."
GeneratedEntry(code) == <<"GENERATED CODE: ">> \o Slice(code, 100) \o <<"...">>

\* f"FIXED CODE: {fixed_code[:100]}..."
FixedEntry(code) == <<"FIXED CODE: ">> \o Slice(code, 100) \o <<"...">>

\* The failure recorded with the text of the first exception.
FailedEntryFirst(e, e2) == <<"CODE EXECUTION FAILED: ">> \o e

\* f"CODE EXECUTION FAILED: {str(e2)}", where e is the exception of the
\* first execution and e2 that of the second.
FailedEntry(e, e2) == <<"CODE EXECUTION FAILED: ">> \o e2

\* fix_code(code=selenium_code, error_message=str(e))
FixRequest(code, e) == [code |-> code, error_message |-> e]

\* The second failure sent back to the fix request, to try once more.
RetryAfterSecondFailure == "fix"

\* The second failure raised again to navigate_and_learn.
ReraiseSecondFailure == "recover"

\* "except Exception as e2" records the failure, and the runner returns.
AfterSecondFailure == "settle"

\* The runner asks for the code of the step:
\* self.code_assistant.generate_selenium_code(...), and the entry in the
\* history. It raises when the call raises, and when it returns no text,
\* so that selenium_code[:100] raises.
GenerateCode(outcome) ==
    /\ pc = "generate"
    /\ IF outcome.kind = "raises"
       THEN /\ error' = [text |-> outcome.text,
                         source |-> "generate_selenium_code"]
            /\ pc' = "recover"
            /\ UNCHANGED <<selenium_code, action_history>>
       ELSE /\ selenium_code' = outcome.text
            /\ action_history' =
                   Append(action_history, GeneratedEntry(outcome.text))
            /\ pc' = "execute"
            /\ UNCHANGED error
    /\ UNCHANGED <<capVars, runVars>>
    /\ UNCHANGED <<memVars, entry, user_goal, initial_plan, plan, plan_steps,
                   step_index, current_url, page_content, driver, fixed_code,
                   attempt, calls, raised>>

\* The first execution: execute_selenium_code(selenium_code).
ExecuteGenerated(outcome) ==
    /\ pc = "execute"
    /\ SetNavState(ExecuteSeleniumCode(NavState, selenium_code, outcome))
    /\ IF ExecuteRaises(outcome)
       THEN /\ error' = [text |-> outcome.error,
                         source |-> "execute_selenium_code"]
            /\ attempt' = [attempt EXCEPT !.executions = @ + 1,
                                          !.first = "failed",
                                          !.first_error = outcome.error]
            /\ pc' = "fix"
       ELSE /\ attempt' = [attempt EXCEPT !.executions = @ + 1,
                                          !.first = "ok"]
            /\ pc' = "settle"
            /\ UNCHANGED error
    /\ UNCHANGED <<capVars, runVars>>
    /\ UNCHANGED <<memResult, entry, user_goal, initial_plan, plan,
                   plan_steps, step_index, selenium_code, fixed_code, calls,
                   raised>>

\* The fix request, and the entry in the history. It raises when fix_code
\* raises, and when it returns no text, so that fixed_code[:100] raises.
FixCode(outcome) ==
    /\ pc = "fix"
    /\ LET request == FixRequest(selenium_code, error.text)
       IN  IF outcome.kind = "raises"
           THEN /\ attempt' = [attempt EXCEPT
                                  !.fixes = @ + 1, !.fix = "raised",
                                  !.fix_code = request.code,
                                  !.fix_error_message = request.error_message]
                /\ error' = [text |-> outcome.text, source |-> "fix_code"]
                /\ pc' = "recover"
                /\ UNCHANGED <<fixed_code, action_history>>
           ELSE /\ attempt' = [attempt EXCEPT
                                  !.fixes = @ + 1, !.fix = "returned",
                                  !.fix_code = request.code,
                                  !.fix_error_message = request.error_message]
                /\ fixed_code' = outcome.text
                /\ action_history' =
                       Append(action_history, FixedEntry(outcome.text))
                /\ pc' = "execute_fixed"
                /\ UNCHANGED error
    /\ UNCHANGED <<capVars, runVars>>
    /\ UNCHANGED <<memVars, entry, user_goal, initial_plan, plan, plan_steps,
                   step_index, current_url, page_content, driver,
                   selenium_code, calls, raised>>

\* The second execution: execute_selenium_code(fixed_code).
ExecuteFixed(outcome) ==
    /\ pc = "execute_fixed"
    /\ LET st == ExecuteSeleniumCode(NavState, fixed_code, outcome)
       IN  IF ExecuteRaises(outcome)
           THEN /\ SetNavState(
                      [st EXCEPT !.action_history =
                           Append(@, FailedEntry(error.text, outcome.error))])
                /\ error' = [text |-> outcome.error,
                             source |-> "execute_selenium_code"]
                /\ attempt' = [attempt EXCEPT !.executions = @ + 1,
                                              !.second = "failed",
                                              !.second_error = outcome.error]
                /\ pc' = AfterSecondFailure
           ELSE /\ SetNavState(st)
                /\ attempt' = [attempt EXCEPT !.executions = @ + 1,
                                              !.second = "ok"]
                /\ pc' = "settle"
                /\ UNCHANGED error
    /\ UNCHANGED <<capVars, runVars>>
    /\ UNCHANGED <<memResult, entry, user_goal, initial_plan, plan,
                   plan_steps, step_index, selenium_code, fixed_code, calls,
                   raised>>

\* After each step: when there is page content, analyze_ui is called and
\* its full_analysis goes to memory; then the next step.
Settle(outcome, payload) ==
    /\ pc = "settle"
    /\ IF ~Truthy(page_content)
       THEN /\ step_index' = step_index + 1
            /\ pc' = "loop"
            /\ UNCHANGED <<memory, error>>
       ELSE IF outcome.kind = "raises"
       THEN /\ error' = [text |-> outcome.text, source |-> "analyze_ui"]
            /\ pc' = "recover"
            /\ UNCHANGED <<memory, step_index>>
       ELSE /\ memory' =
                   AddToMemoryResult(
                       memory,
                       <<"ui_analysis_">> \o IntText(Len(action_history)),
                       outcome.text,
                       Meta({<<"type", <<"ui_analysis">>>>,
                             <<"url", current_url>>,
                             <<"step", CurrentStep>>}),
                       payload).memory
            /\ step_index' = step_index + 1
            /\ pc' = "loop"
            /\ UNCHANGED error
    /\ UNCHANGED <<capVars, runVars>>
    /\ UNCHANGED <<memResult, entry, user_goal, initial_plan, plan,
                   plan_steps, action_history, current_url, page_content,
                   driver, selenium_code, fixed_code, attempt, calls, raised>>

-----------------------------------------------------------------------------
(* navigate_and_learn: recovery; perform_web_goal: summary and teardown *)

\* "except Exception as e" of navigate_and_learn: handle_error is called;
\* when it raises, navigate_and_learn raises.
Recover(outcome) ==
    /\ pc = "recover"
    /\ calls' = [calls EXCEPT !.handle_error = @ + 1,
                              !.recovery_plan = IF outcome.kind = "raises"
                                                THEN @ ELSE outcome.text]
    /\ IF outcome.kind = "raises"
       THEN /\ error' = [text |-> outcome.text, source |-> "handle_error"]
            /\ raised' = TRUE
            /\ pc' = AfterNavigateRaises
       ELSE /\ pc' = IF HasSearchIntent(user_goal) THEN "recover_goto"
                     ELSE AfterNavigate
            /\ UNCHANGED <<error, raised>>
    /\ UNCHANGED <<capVars, runVars>>
    /\ UNCHANGED <<memVars, entry, user_goal, initial_plan, plan, plan_steps,
                   step_index, action_history, current_url, page_content,
                   driver, selenium_code, fixed_code, attempt>>

\* The recovery that navigates to where the recovery plan says.
RecoveryTargetFromPlan(goal, recovery_plan) == recovery_plan

\* search_url of the handler: built from the goal; recovery_plan is
\* printed and not read.
RecoveryTarget(goal, recovery_plan) == SearchUrl(SearchTerm(goal))

\* The fallback of the handler: go_to_url(search_url).
RecoverGoTo(outcome, payload) ==
    /\ pc = "recover_goto"
    /\ SetNavState(GoToUrl(NavState,
                           RecoveryTarget(user_goal, calls.recovery_plan),
                           outcome, payload))
    /\ pc' = AfterNavigate
    /\ UNCHANGED <<capVars, runVars>>
    /\ UNCHANGED <<memResult, entry, user_goal, initial_plan, plan,
                   plan_steps, step_index, selenium_code, fixed_code, error,
                   attempt, calls, raised>>

\* Navigator.semantic_indexer, the store summarize_results searches: it is
\* another SemanticIndexer than WebNavigator's, and nothing adds to it.
OrchestratorMemory == <<>>

\* summarize_results(user_goal): search_memory on the empty store returns
\* [] before any embedding is asked for; the summary request returns or
\* raises.
Summarize(outcome) ==
    /\ pc = "summarize"
    /\ memResult' = [op |-> "search", item_id |-> <<>>, text |-> user_goal,
                     embedding |-> <<>>, ret |-> FALSE, top_k |-> 10,
                     result |-> SearchMemoryResult(
                                    OrchestratorMemory, user_goal, 10,
                                    CHOOSE payload \in RunPayloads : TRUE),
                     service |-> NoAnswer]
    /\ IF outcome.kind = "raises"
       THEN /\ error' = [text |-> outcome.text, source |-> "summarize_results"]
            /\ raised' = TRUE
            /\ pc' = AfterPerformRaises
       ELSE /\ pc' = "finally"
            /\ UNCHANGED <<error, raised>>
    /\ UNCHANGED <<capVars, runVars>>
    /\ UNCHANGED <<memory, entry, user_goal, initial_plan, plan, plan_steps,
                   step_index, action_history, current_url, page_content,
                   driver, selenium_code, fixed_code, attempt, calls>>

\* finally: close_browser(), which calls close_driver(); driver.quit()
\* is called when there is a driver, and may raise.
Finally(quit_raises) ==
    /\ pc = "finally"
    /\ calls' = [calls EXCEPT !.close_browser = @ + 1,
                              !.quit = IF driver.live THEN @ + 1 ELSE @]
    /\ driver' = IF driver.live THEN CloseDriver(driver, quit_raises)
                 ELSE driver
    /\ pc' = "done"
    /\ UNCHANGED <<capVars, runVars>>
    /\ UNCHANGED <<memVars, entry, user_goal, initial_plan, plan, plan_steps,
                   step_index, action_history, current_url, page_content,
                   selenium_code, fixed_code, error, attempt, raised>>

-----------------------------------------------------------------------------
(* process_and_store_api_request: the capture of one request *)

\* The most captures one WebNavigator takes in the model.
MaxCaptures == 2

\* request_data: a dict with a method and a url and nothing else. The second
\* url is the first with "_replay" after it.
Urls == {<<"http://a/x">>, <<"http://a/x", "_replay">>}

Requests ==
    {[method |-> <<"GET">>, url |-> u] : u \in Urls}
    \cup {[method |-> <<"POST">>, url |-> <<"http://a/x">>]}

\* analyze_request_response_pair(request_data, response_data): it returns
\* the analysis text, or raises (generate_text returned no dict, or
\* json.dumps met a value it cannot write).
CaptureAnalyses ==
    {Returns(<<"analysis">>), Returns(<<"another analysis">>), Raises(<<"E1">>)}

\* next(self.db_session_factory()): a session, or an exception. The factory
\* Navigator installs returns SessionLocal(), which is no iterator, so
\* next() raises TypeError on it; get_db yields a session.
SessionOutcomes == {"session", "raises"}

\* The call inside the try block that raises: none ("ok"), db.add,
\* db.commit or db.refresh.
WriteOutcomes == {"ok", "add", "commit", "refresh"}

\* generate_api_replay_code(request_data): the code, or an exception.
ReplayOutcomes == {Returns(<<"code">>), Raises(<<"E2">>)}

NotCalled == [kind |-> "not called", text |-> <<>>]

NoCapture ==
    [op |-> "none", request |-> [method |-> <<>>, url |-> <<>>],
     analysis |-> NotCalled, session |-> "not asked", write |-> "none",
     rolled_back |-> FALSE, closed |-> FALSE, added |-> <<>>,
     returned |-> <<>>, embeddings |-> <<>>, replay |-> NotCalled,
     raised |-> FALSE]

InitCapture ==
    /\ captured_apis = <<>>
    /\ db_rows = <<>>
    /\ capture = NoCapture

\* f"api_{request_data.get('method')}_{request_data.get('url')}"
SemanticId(request) ==
    <<"api_">> \o request.method \o <<"_">> \o request.url

\* The replay code under the id of the request itself.
ReplayIdNoSuffix(semantic_id) == semantic_id

\* f"{semantic_id}_replay"
ReplayId(semantic_id) == semantic_id \o <<"_replay">>

\* The text of the api_request item.
SemanticText(request, analysis) ==
    <<"API Request: ">> \o request.method \o <<" ">> \o request.url
        \o <<"\nHeaders: None\nBody: None\nAnalysis: ">> \o analysis

\* The text of the api_replay_code item.
ReplayText(request, replay_code) ==
    <<"API Replay Code for ">> \o request.method \o <<" ">> \o request.url
        \o <<":\n">> \o replay_code

\* The metadata of both items.
CaptureMeta(type, request) ==
    Meta({<<"type", <<type>>>>, <<"url", request.url>>,
          <<"method", request.method>>})

\* f"API CAPTURED: {method} {url}"
CapturedLine(request) ==
    <<"API CAPTURED: ">> \o request.method \o <<" ">> \o request.url

\* The row db.add(db_request) and db.commit() write.
DbRow(request, analysis) ==
    [method |-> request.method, url |-> request.url, notes |-> analysis]

\* The table after the try block: the row is there once db.commit() returned,
\* also when db.refresh then raises and db.rollback() finds nothing to undo.
RowsAfter(rows, row, write) ==
    IF write \in {"ok", "refresh"} THEN Append(rows, row) ELSE rows

\* process_and_store_api_request(request_data, response_data), given what
\* its collaborators do. payload and replay_payload are what the embedding
\* call does in the first and in the second add_to_memory.
ProcessAndStoreApiRequest(request, analysis, session, write, payload, replay, replay_payload) ==
    LET semantic_id == SemanticId(request)
        first == AddToMemoryResult(
                     memory, semantic_id,
                     SemanticText(request, analysis.text),
                     CaptureMeta("api_request", request), payload)
        second == AddToMemoryResult(
                      first.memory, ReplayId(semantic_id),
                      ReplayText(request, replay.text),
                      CaptureMeta("api_replay_code", request), replay_payload)
        begun == [NoCapture EXCEPT !.op = "capture", !.request = request,
                                   !.analysis = analysis]
    IN  /\ Len(captured_apis) < MaxCaptures
        /\ captured_apis' = Append(captured_apis, request)
        /\ IF analysis.kind = "raises"
           THEN /\ capture' = [begun EXCEPT !.raised = TRUE]
                /\ UNCHANGED <<memory, db_rows, action_history>>
           ELSE IF session = "raises"
           THEN /\ capture' = [begun EXCEPT !.session = "raises",
                                            !.raised = TRUE]
                /\ UNCHANGED <<memory, db_rows, action_history>>
           ELSE /\ db_rows' = RowsAfter(db_rows,
                                        DbRow(request, analysis.text), write)
                /\ action_history' = Append(action_history,
                                            CapturedLine(request))
                /\ IF replay.kind = "raises"
                   THEN /\ memory' = first.memory
                        /\ capture' =
                               [begun EXCEPT !.session = "session",
                                             !.write = write,
                                             !.rolled_back = (write # "ok"),
                                             !.closed = TRUE,
                                             !.added = <<semantic_id>>,
                                             !.returned = <<first.ret>>,
                                             !.embeddings =
                                                 <<first.embedding>>,
                                             !.replay = replay,
                                             !.raised = TRUE]
                   ELSE /\ memory' = second.memory
                        /\ capture' =
                               [begun EXCEPT !.session = "session",
                                             !.write = write,
                                             !.rolled_back = (write # "ok"),
                                             !.closed = TRUE,
                                             !.added = <<semantic_id,
                                                         ReplayId(semantic_id)>>,
                                             !.returned = <<first.ret,
                                                            second.ret>>,
                                             !.embeddings =
                                                 <<first.embedding,
                                                   second.embedding>>,
                                             !.replay = replay]
    /\ UNCHANGED <<memResult, pc, entry, user_goal, initial_plan, plan,
                   plan_steps, step_index, current_url, page_content, driver,
                   selenium_code, fixed_code, error, attempt, calls, raised>>
    /\ UNCHANGED runVars

\* The captures one WebNavigator takes, one after the other. Where the
\* handler stops early, what the later collaborators would do is no input.
NextCapture ==
    \/ \E request \in Requests, analysis \in CaptureAnalyses :
          /\ analysis.kind = "raises"
          /\ ProcessAndStoreApiRequest(request, analysis, "raises", "ok",
                                       CHOOSE p \in RunPayloads : TRUE,
                                       NotCalled,
                                       CHOOSE p \in RunPayloads : TRUE)
    \/ \E request \in Requests, analysis \in CaptureAnalyses :
          /\ analysis.kind = "returns"
          /\ ProcessAndStoreApiRequest(request, analysis, "raises", "ok",
                                       CHOOSE p \in RunPayloads : TRUE,
                                       NotCalled,
                                       CHOOSE p \in RunPayloads : TRUE)
    \/ \E request \in Requests, analysis \in CaptureAnalyses,
          write \in WriteOutcomes, payload \in RunPayloads,
          replay \in ReplayOutcomes :
          /\ analysis.kind = "returns"
          /\ replay.kind = "raises"
          /\ ProcessAndStoreApiRequest(request, analysis, "session", write,
                                       payload, replay,
                                       CHOOSE p \in RunPayloads : TRUE)
    \/ \E request \in Requests, analysis \in CaptureAnalyses,
          write \in WriteOutcomes, payload \in RunPayloads,
          replay \in ReplayOutcomes, replay_payload \in RunPayloads :
          /\ analysis.kind = "returns"
          /\ replay.kind = "returns"
          /\ ProcessAndStoreApiRequest(request, analysis, "session", write,
                                       payload, replay, replay_payload)


-----------------------------------------------------------------------------
(* SemanticIndexer: add_to_memory calls that interleave at the await *)

\* The number of add_to_memory calls that may be in flight together.
MaxAdds == 3

AddCalls == 1..MaxAdds

NoAdd ==
    [phase |-> "idle", item_id |-> <<>>, text_content |-> <<>>,
     began_on |-> <<>>, embedding |-> <<>>, ret |-> FALSE]

AddIds == {<<"a">>, <<"b">>}

AddTexts == {<<>>, <<"hello">>}

\* The embeddings endpoint answers with a vector, with an empty list, or
\* the request raises.
AddPayloads ==
    {[kind |-> "raise", embedding |-> [tag |-> "none", list |-> <<>>],
      response |-> [tag |-> "absent", list |-> <<>>]]}
    \cup {[kind |-> "dict", embedding |-> [tag |-> "list", list |-> v],
            response |-> [tag |-> "absent", list |-> <<>>]] :
            v \in {<<1, 0>>, <<>>}}

\* add_to_memory with the id looked up in the store as it was when the
\* call began, before the await.
AddCheckedAtCall(mem, began_on, item_id, text_content, metadata, payload) ==
    LET r == AddToMemoryResult(began_on, item_id, text_content, metadata,
                               payload)
    IN  IF r.ret THEN [r EXCEPT !.memory = Append(mem, r.memory[Len(r.memory)])]
        ELSE [r EXCEPT !.memory = mem]

\* add_to_memory from the await on: the embedding has arrived, and the id
\* is looked up in the store as it is now; there is no await between the
\* lookup and the append.
AddAfterEmbedding(mem, began_on, item_id, text_content, metadata, payload) ==
    AddToMemoryResult(mem, item_id, text_content, metadata, payload)

\* Call c of add_to_memory(item_id, text_content) up to its await: it
\* returns False at once for an empty id or text, and otherwise waits for
\* the embedding.
AddBegin(c, item_id, text_content) ==
    /\ adding[c].phase = "idle"
    /\ \A q \in 1..(c - 1) : adding[q].phase # "idle"
    /\ adding' = [adding EXCEPT ![c] =
           [phase |-> IF item_id = <<>> \/ text_content = <<>> THEN "done"
                      ELSE "awaiting",
            item_id |-> item_id, text_content |-> text_content,
            began_on |-> memory, embedding |-> <<>>, ret |-> FALSE]]
    /\ UNCHANGED <<memVars, navVars, capVars, runs>>

\* The embedding of call c arrives and the call runs to its end.
AddResume(c, payload) ==
    /\ adding[c].phase = "awaiting"
    /\ LET r == AddAfterEmbedding(memory, adding[c].began_on,
                                  adding[c].item_id, adding[c].text_content,
                                  NoneMeta, payload)
       IN  /\ memory' = r.memory
           /\ adding' = [adding EXCEPT ![c].phase = "done",
                                       ![c].embedding = r.embedding,
                                       ![c].ret = r.ret]
    /\ UNCHANGED <<memResult, navVars, capVars, runs>>

NextAdds ==
    \/ \E c \in AddCalls, item_id \in AddIds, text_content \in AddTexts :
            AddBegin(c, item_id, text_content)
    \/ \E c \in AddCalls, payload \in AddPayloads : AddResume(c, payload)


-----------------------------------------------------------------------------
(* navigate_web: goals started in the background on one Navigator *)

\* How many goals are started through navigate_web.
MaxRuns == 2

RunIds == 1..MaxRuns

\* No task yet for this request.
NoRun == [pc |-> "idle", goal |-> <<>>, raised |-> FALSE]

InitRuns ==
    /\ runs = [r \in RunIds |-> NoRun]
    /\ adding = [c \in AddCalls |-> NoAdd]

\* WebNavigator.close_browser(): the driver field afterwards.
CloseBrowser(d, quit_raises) ==
    IF d.live THEN CloseDriver(d, quit_raises) ELSE d

\* navigate_and_learn(user_goal) as perform_web_goal calls it, with no
\* plan: there are no steps, and a goal with a trigger term takes the
\* default path, go_to_url and then, if there is a driver, the search.
\* Nothing of it raises.
DefaultBehavior(st, goal, goto, payload, exec) ==
    IF ~HasSearchIntent(goal) THEN st
    ELSE LET gone == GoToUrl(st, DuckDuckGo, goto, payload)
             search_term == SearchTerm(goal)
             searched == ExecuteSeleniumCode(gone, SearchCode(search_term), exec)
         IN  IF ~gone.driver.live THEN gone
             ELSE IF ExecuteRaises(exec) THEN searched
             ELSE [searched EXCEPT
                      !.action_history =
                          Append(@, <<"DEFAULT: Searched for '">>
                                       \o search_term
                                       \o <<"' on DuckDuckGo">>)]

\* navigate_web(request): perform_web_goal(request.goal) is added as a
\* background task and the response is sent; the task runs up to its first
\* await, the request to the planner. Requests are numbered as they come.
NavigateWeb(r, goal) ==
    /\ runs[r].pc = "idle"
    /\ \A q \in 1..(r - 1) : runs[q].pc # "idle"
    /\ runs' = [runs EXCEPT ![r] = [pc |-> "plan", goal |-> goal,
                                    raised |-> FALSE]]
    /\ UNCHANGED <<memVars, navVars, capVars, adding>>

\* The planner answers task r. When it raised, the finally block closes
\* the browser and the task ends. Otherwise navigate_and_learn runs, and
\* the task goes on to its next await on the model service, the summary
\* request of summarize_results; the awaits inside go_to_url are taken
\* with no other task scheduled in between.
RunPlanned(r, outcome, goto, payload, exec, quit_raises) ==
    /\ runs[r].pc = "plan"
    /\ IF outcome.kind = "raises"
       THEN /\ driver' = CloseBrowser(driver, quit_raises)
            /\ runs' = [runs EXCEPT ![r].pc = "done", ![r].raised = TRUE]
            /\ UNCHANGED <<memory, action_history, current_url, page_content>>
       ELSE /\ SetNavState(DefaultBehavior(NavState, runs[r].goal, goto,
                                           payload, exec))
            /\ runs' = [runs EXCEPT ![r].pc = "summarize"]
    /\ UNCHANGED <<memResult, pc, entry, user_goal, initial_plan, plan,
                   plan_steps, step_index, selenium_code, fixed_code, error,
                   attempt, calls, raised, capVars, adding>>

\* The summary request of task r returns or raises; the finally block
\* closes the browser and the task ends.
RunSummarized(r, outcome, quit_raises) ==
    /\ runs[r].pc = "summarize"
    /\ driver' = CloseBrowser(driver, quit_raises)
    /\ runs' = [runs EXCEPT ![r].pc = "done",
                            ![r].raised = (outcome.kind = "raises")]
    /\ UNCHANGED <<memVars, pc, entry, user_goal, initial_plan, plan,
                   plan_steps, step_index, action_history, current_url,
                   page_content, selenium_code, fixed_code, error, attempt,
                   calls, raised, capVars, adding>>

NextRuns ==
    \/ \E r \in RunIds, goal \in Goals : NavigateWeb(r, goal)
    \/ \E r \in RunIds, outcome \in PlannerOutcomes,
          goto \in GoToUrlOutcomes(NavState), payload \in RunPayloads,
          exec \in {o \in ExecuteOutcomes(NavState) : o.kind # "create_raises"},
          quit_raises \in BOOLEAN :
            RunPlanned(r, outcome, goto, payload, exec, quit_raises)
    \/ \E r \in RunIds, outcome \in SummaryOutcomes, quit_raises \in BOOLEAN :
            RunSummarized(r, outcome, quit_raises)

-----------------------------------------------------------------------------
(* SemanticIndexer: _cosine_similarity called on two vectors *)

\* The longest vector the similarity is called on.
MaxVectorLen == 2

Components == {-2, -1, 0, 1, 2}

RECURSIVE VectorsOfLen(_)
VectorsOfLen(n) ==
    IF n = 0 THEN {<<>>}
    ELSE {Append(v, c) : v \in VectorsOfLen(n - 1), c \in Components}

CosineVectors == UNION {VectorsOfLen(n) : n \in 0..MaxVectorLen}

\* _cosine_similarity(vec1, vec2): the value returned, and the order score
\* the search ranks by.  The function reads its two arguments and nothing
\* of the store, so the calls on two given vectors are made first, on the
\* store as constructed; search_memory makes the others.
CosineCall(vec1, vec2) ==
    /\ memory = <<>>
    /\ memResult = NoResult
    /\ memory' = memory
    /\ memResult' = [op |-> "cosine", vec1 |-> vec1, vec2 |-> vec2,
                     value |-> CosineFloat(vec1, vec2),
                     mirrored |-> CosineFloat(vec2, vec1),
                     score |-> CosineSimilarity(vec1, vec2)]
    /\ UNCHANGED <<navVars, capVars, runVars>>

\* The similarity called on two vectors, or by search_memory on the
\* stored items.
NextCosine ==
    \/ \E vec1 \in CosineVectors, vec2 \in CosineVectors :
            CosineCall(vec1, vec2)
    \/ \E item_id \in SearchIds, payload \in SearchPayloads :
            AddToMemory(item_id, <<"hello">>, NoneMeta, payload)
    \/ \E top_k \in TopKs, payload \in SearchPayloads :
            SearchMemory(<<"hello">>, top_k, payload)

-----------------------------------------------------------------------------
(* The operations of one WebNavigator and its SeleniumManager, called in   *)
(* any order                                                               *)

\* The calls are made while the history has fewer entries than this.
MaxHistory == 2

OpCodes == {<<"generated code">>, <<"fixed code">>}

\* SeleniumManager.extract_page_content(url): create_driver() puts a new
\* driver into the field, the page is read from it, and the finally block
\* quits it; the field keeps the driver. When create_driver raises the
\* field is as before.
ExtractOutcomes == {"ok", "create_raises", "get_raises"}

ExtractPageContent(d, url, outcome) ==
    IF outcome = "create_raises" THEN d
    ELSE [(IF outcome = "ok" THEN Visit(FreshDriver, url)
           ELSE Issued(FreshDriver, "get", url)) EXCEPT !.quit = TRUE]

\* execute_step_with_code_generation(step_description), given what
\* generate_selenium_code, the first execution, fix_code and the second
\* execution do: the fields afterwards, and whether the call raises.
ExecuteStepWithCodeGeneration(st, generate, first, fix, second) ==
    IF generate.kind = "raises" THEN [st |-> st, raised |-> TRUE]
    ELSE LET generated == [st EXCEPT !.action_history =
                               Append(@, GeneratedEntry(generate.text))]
             ran == ExecuteSeleniumCode(generated, generate.text, first)
         IN  IF ~ExecuteRaises(first) THEN [st |-> ran, raised |-> FALSE]
             ELSE IF fix.kind = "raises" THEN [st |-> ran, raised |-> TRUE]
             ELSE LET fixed == [ran EXCEPT !.action_history =
                                    Append(@, FixedEntry(fix.text))]
                      again == ExecuteSeleniumCode(fixed, fix.text, second)
                  IN  IF ~ExecuteRaises(second)
                      THEN [st |-> again, raised |-> FALSE]
                      ELSE [st |-> [again EXCEPT !.action_history =
                                        Append(@, FailedEntry(first.error,
                                                              second.error))],
                            raised |-> FALSE]

\* What an operation leaves alone; entry names the operation called last,
\* raised tells whether it raised, and error which of its calls failed.
OpUnchanged ==
    UNCHANGED <<memResult, pc, user_goal, initial_plan, plan, plan_steps,
                step_index, selenium_code, fixed_code, attempt, calls,
                capVars, runVars>>

\* go_to_url with a handler that raises the exception again, as the one
\* of execute_selenium_code does.
GoToUrlReraises(outcome) == outcome.kind # "ok"

\* Whether go_to_url raises: its except block records the error and ends
\* without a raise.
GoToUrlRaises(outcome) == FALSE

OpGoToUrl(url, outcome, payload) ==
    /\ Len(action_history) < MaxHistory
    /\ SetNavState(GoToUrl(NavState, url, outcome, payload))
    /\ entry' = "go_to_url"
    /\ raised' = GoToUrlRaises(outcome)
    /\ error' = IF outcome.kind = "ok" THEN NoError
                ELSE [text |-> outcome.error, source |-> outcome.kind]
    /\ OpUnchanged

OpExecuteSeleniumCode(code_snippet, outcome) ==
    /\ Len(action_history) < MaxHistory
    /\ SetNavState(ExecuteSeleniumCode(NavState, code_snippet, outcome))
    /\ entry' = "execute_selenium_code"
    /\ raised' = ExecuteRaises(outcome)
    /\ UNCHANGED error
    /\ OpUnchanged

OpExecuteStep(generate, fix) ==
    /\ Len(action_history) < MaxHistory
    /\ \E first \in ExecuteOutcomes(NavState) :
          \E second \in ExecuteOutcomes(
                            ExecuteSeleniumCode(NavState, generate.text, first)) :
              LET r == ExecuteStepWithCodeGeneration(NavState, generate, first,
                                                     fix, second)
              IN  /\ SetNavState(r.st)
                  /\ raised' = r.raised
    /\ entry' = "execute_step_with_code_generation"
    /\ UNCHANGED error
    /\ OpUnchanged

OpCloseBrowser(quit_raises) ==
    /\ driver' = CloseBrowser(driver, quit_raises)
    /\ entry' = "close_browser"
    /\ raised' = FALSE
    /\ UNCHANGED <<memory, current_url, page_content, action_history, error>>
    /\ OpUnchanged

OpExtractPageContent(url, outcome) ==
    /\ driver' = ExtractPageContent(driver, url, outcome)
    /\ entry' = "extract_page_content"
    /\ raised' = (outcome # "ok")
    /\ UNCHANGED <<memory, current_url, page_content, action_history, error>>
    /\ OpUnchanged

OpCapture(request, payload) ==
    /\ Len(action_history) < MaxHistory
    /\ ProcessAndStoreApiRequest(request, Returns(<<"analysis">>), "session",
                                 "ok", payload, Returns(<<"code">>), payload)

NextOps ==
    \/ \E url \in Urls, outcome \in GoToUrlOutcomes(NavState),
          payload \in RunPayloads :
            OpGoToUrl(url, outcome, payload)
    \/ \E code_snippet \in OpCodes, outcome \in ExecuteOutcomes(NavState) :
            OpExecuteSeleniumCode(code_snippet, outcome)
    \/ \E generate \in GenerateOutcomes, fix \in FixOutcomes :
            OpExecuteStep(generate, fix)
    \/ \E quit_raises \in BOOLEAN : OpCloseBrowser(quit_raises)
    \/ \E url \in Urls, outcome \in ExtractOutcomes :
            OpExtractPageContent(url, outcome)
    \/ \E request \in Requests, payload \in RunPayloads :
            OpCapture(request, payload)


-----------------------------------------------------------------------------
(* Specifications *)

Init == InitMem /\ InitNav /\ InitCapture /\ InitRuns

Next ==
    \/ \E goal \in Goals, outcome \in PlannerOutcomes :
            PerformWebGoal(goal, outcome)
    \/ \E goal \in Goals, p \in Plans : NavigateAndLearn(goal, p)
    \/ \E payload \in RunPayloads : ParseSteps(payload)
    \/ \E outcome \in GoToUrlOutcomes(NavState), payload \in RunPayloads :
            DefaultGoTo(outcome, payload)
    \/ \E outcome \in ExecuteOutcomes(NavState) : DefaultSearch(outcome)
    \/ StepBegin
    \/ LoopEnd
    \/ \E outcome \in GoToUrlOutcomes(NavState), payload \in RunPayloads :
            StepGoTo(outcome, payload)
    \/ \E outcome \in GenerateOutcomes : GenerateCode(outcome)
    \/ \E outcome \in ExecuteOutcomes(NavState) : ExecuteGenerated(outcome)
    \/ \E outcome \in FixOutcomes : FixCode(outcome)
    \/ \E outcome \in ExecuteOutcomes(NavState) : ExecuteFixed(outcome)
    \/ \E outcome \in AnalyzeOutcomes, payload \in RunPayloads :
            Settle(outcome, payload)
    \/ \E outcome \in HandleErrorOutcomes : Recover(outcome)
    \/ \E outcome \in GoToUrlOutcomes(NavState), payload \in RunPayloads :
            RecoverGoTo(outcome, payload)
    \/ \E outcome \in SummaryOutcomes : Summarize(outcome)
    \/ \E quit_raises \in BOOLEAN : Finally(quit_raises)

\* A run of perform_web_goal or of navigate_and_learn.
Spec == Init /\ [][Next]_vars

\* Any sequence of add, search and clear on one SemanticIndexer.
SpecMem == Init /\ [][NextMem]_vars

\* Adds and searches on one SemanticIndexer holding up to three items.
SpecSearch == Init /\ [][NextSearch]_vars

\* Adds, searches and bare embeddings on one store whose client is an
\* OllamaClient.
SpecEmbed == Init /\ [][NextEmbed]_vars

\* The captures of one WebNavigator.
SpecCapture == Init /\ [][NextCapture]_vars

\* add_to_memory calls on one store, each suspended at its await while
\* others begin and finish.
SpecAdds == Init /\ [][NextAdds]_vars

\* go_to_url, execute_selenium_code, execute_step_with_code_generation,
\* process_and_store_api_request, close_browser and extract_page_content
\* called in any order on one WebNavigator.
SpecOps == Init /\ [][NextOps]_vars

\* The goals started through navigate_web on the one Navigator of main.py.
SpecRuns == Init /\ [][NextRuns]_vars

\* Calls of _cosine_similarity on small vectors of whole numbers.
SpecCosine == Init /\ [][NextCosine]_vars

-----------------------------------------------------------------------------
(* Properties of a run *)

\* The steps recorded in the history as attempted, in order.
PlanStepEvents(history) ==
    LET events == SelectSeq(history,
                            LAMBDA entry_text : Head(entry_text) = "PLAN STEP: ")
    IN  [k \in 1..Len(events) |-> Tail(events[k])]

\* The failures recorded in the history.
FailedEvents(history) ==
    SelectSeq(history,
              LAMBDA entry_text : Head(entry_text) = "CODE EXECUTION FAILED: ")

\* The steps the plan returned by the planner parses into.
PlannedSteps == ParsePlan(SomePlan(initial_plan))

TeardownOnce ==
    /\ calls.close_browser <= 1
    /\ calls.close_browser = 1 => (pc = "done" /\ ~driver.live)
    /\ (entry = "perform" /\ pc = "done") => calls.close_browser = 1

\* The places of a run, in the order a run passes them.
PcOrder ==
    <<"idle", "navigate", "default_goto", "default_search", "loop",
      "step_goto", "generate", "execute", "fix", "execute_fixed", "settle",
      "recover", "recover_goto", "summarize", "finally", "done">>

PcIndex(place) == CHOOSE k \in 1..Len(PcOrder) : PcOrder[k] = place

InStepLoop(place) == PcIndex(place) \in PcIndex("loop")..PcIndex("settle")

\* How far a run has come: the place, and inside the step loop the step
\* and the place in the step.
Progress(place, index) ==
    IF InStepLoop(place)
    THEN <<PcIndex("loop"), index, PcIndex(place)>>
    ELSE <<PcIndex(place), 0, 0>>

Further(a, b) ==
    \/ a[1] < b[1]
    \/ a[1] = b[1] /\ a[2] < b[2]
    \/ a[1] = b[1] /\ a[2] = b[2] /\ a[3] < b[3]

\* A run that is not over can take a step, at each place where the code
\* calls the planner, the coder or the browser for a step, sums up or
\* tears down.
RunGoesOn ==
    /\ pc = "loop" => ENABLED (StepBegin \/ LoopEnd)
    /\ pc = "generate" =>
          ENABLED (\E outcome \in GenerateOutcomes : GenerateCode(outcome))
    /\ pc = "execute" =>
          ENABLED (\E outcome \in ExecuteOutcomes(NavState) :
                      ExecuteGenerated(outcome))
    /\ pc = "fix" => ENABLED (\E outcome \in FixOutcomes : FixCode(outcome))
    /\ pc = "execute_fixed" =>
          ENABLED (\E outcome \in ExecuteOutcomes(NavState) :
                      ExecuteFixed(outcome))
    /\ pc = "settle" =>
          ENABLED (\E outcome \in AnalyzeOutcomes, payload \in RunPayloads :
                      Settle(outcome, payload))
    /\ pc = "recover" =>
          ENABLED (\E outcome \in HandleErrorOutcomes : Recover(outcome))
    /\ pc = "summarize" =>
          ENABLED (\E outcome \in SummaryOutcomes : Summarize(outcome))
    /\ pc = "finally" =>
          ENABLED (\E quit_raises \in BOOLEAN : Finally(quit_raises))

\* C1: every run of perform_web_goal ends with teardown. close_browser is
\* called at most once, and once it has been called the run is over with
\* no live driver, and no step touches the browser any more; a run of
\* perform_web_goal that is over has called it, whether the planner, the
\* plan execution or the summary returned or raised; and every run comes
\* to its end: a run that is not over can take a step, and every step
\* takes it further in the order of its places.
C1_TeardownAlways ==
    /\ [](TeardownOnce /\ RunGoesOn)
    /\ [][calls.close_browser = 1 =>
              UNCHANGED <<driver, current_url, page_content, action_history>>]_vars
    /\ [][Further(Progress(pc, step_index), Progress(pc', step_index'))]_vars

\* C1, its case: a run of perform_web_goal that opened a browser, raised
\* in the summary, and is over with the browser closed.
C1_Witness ==
    /\ entry = "perform"
    /\ pc = "done"
    /\ raised
    /\ error.source = "summarize_results"
    /\ calls.quit = 1
    /\ calls.close_browser = 1

\* C2: the plan returned by the planner is the plan navigate_and_learn
\* parses and runs: when it has n >= 1 non-blank lines, the steps parsed
\* are those n lines, the default path of the empty plan is not taken,
\* and a run that ends with no exception handled has recorded one PLAN
\* STEP entry for each of them, in order.
C2_PlannedStepsAreRun ==
    (entry = "perform" /\ pc \notin {"idle", "navigate"} /\ PlannedSteps # <<>>)
        => /\ plan_steps = PlannedSteps
           /\ pc \notin {"default_goto", "default_search"}
           /\ (pc = "done" /\ ~raised /\ calls.handle_error = 0)
                  => PlanStepEvents(action_history) = PlannedSteps

\* C3: perform_web_goal never raises to its caller: a run of it that is
\* over has returned, whatever the planner, the plan execution and the
\* summary did.
C3_NeverRaises == (entry = "perform" /\ pc = "done") => ~raised

\* C4: for one step handed to execute_step_with_code_generation, at most
\* two executions and at most one fix request; one execution and no fix
\* request when the first execution succeeds; one fix request and one
\* further execution when the first execution fails.
C4_ExecutionsAndFixes ==
    /\ attempt.executions <= 2
    /\ attempt.fixes <= 1
    /\ attempt.first = "ok" => (attempt.executions = 1 /\ attempt.fixes = 0)
    /\ (attempt.first = "failed" /\ pc \notin {"fix", "execute_fixed"})
           => (attempt.fixes = 1 /\ attempt.executions = 2)

\* After a step whose two executions failed, the loop is at the point
\* after the runner, in the iteration of that step.
SecondFailureReturned ==
    /\ attempt.second = "failed"
    /\ pc = "settle"

StepsAttemptedInOrder ==
    /\ pc \in {"step_goto", "generate", "execute", "fix", "execute_fixed",
               "settle"}
           => PlanStepEvents(action_history) = SubSeq(plan_steps, 1, step_index)
    /\ pc = "loop"
           => PlanStepEvents(action_history)
                  = SubSeq(plan_steps, 1, step_index - 1)

ExecutionFailureNeverHandled ==
    pc = "recover" => error.source # "execute_selenium_code"

AllStepsAttempted ==
    (pc = "done" /\ calls.handle_error = 0 /\ plan_steps # <<>>)
        => PlanStepEvents(action_history) = plan_steps

\* At the head of the loop with a step left, the next step begins.
NextStepBegins ==
    (pc = "loop" /\ step_index <= Len(plan_steps))
        => (ENABLED StepBegin /\ ~ENABLED LoopEnd)

\* C5: when both executions of a step fail, the runner returns without
\* raising and navigate_and_learn goes on with the plan. A failed
\* execution never reaches the exception handler of navigate_and_learn;
\* the steps recorded as attempted are always the parsed steps up to the
\* current one, in order; the step after one whose two executions failed
\* takes the loop to its next iteration (or, when the analysis of the
\* page raises, to the exception handler), where the next step begins if
\* one is left; and a run that ends with no exception handled has
\* attempted every parsed step, whatever the number of failures recorded.
C5_FailedStepsDoNotStopThePlan ==
    /\ [](ExecutionFailureNeverHandled /\ StepsAttemptedInOrder
          /\ AllStepsAttempted /\ NextStepBegins)
    /\ [][SecondFailureReturned
              => \/ pc' = "loop" /\ step_index' = step_index + 1
                 \/ pc' = "recover" /\ error'.source = "analyze_ui"]_vars

\* C5, its case: a run over a plan of two steps that is over, with no
\* exception handled, both steps failed twice, both attempted.
C5_Witness ==
    /\ pc = "done"
    /\ calls.handle_error = 0
    /\ Len(plan_steps) = 2
    /\ Len(FailedEvents(action_history)) = 2
    /\ PlanStepEvents(action_history) = plan_steps

\* C6: if the first execution raises E1 and the execution of the fixed
\* code raises E2, the fix request carried the generated code and the
\* text of E1, and the failure recorded is the text of E2.
C6_FixSeesFirstErrorRecordSeesSecond ==
    SecondFailureReturned
        => /\ attempt.first = "failed"
           /\ attempt.fixes = 1
           /\ attempt.fix_code = selenium_code
           /\ attempt.fix_error_message = attempt.first_error
           /\ action_history[Len(action_history)]
                  = <<"CODE EXECUTION FAILED: ">> \o attempt.second_error

\* C6, its case: the first execution raised E1 and the second E2.
C6_Witness ==
    /\ SecondFailureReturned
    /\ attempt.first_error = <<"E1">>
    /\ attempt.second_error = <<"E2">>
    /\ selenium_code = <<"generated code">>

-----------------------------------------------------------------------------
(* Properties of the store *)

NoDuplicateIds ==
    \A i, j \in 1..Len(memory) : memory[i].id = memory[j].id => i = j

\* C7: no two stored items share an id, in every state add, search and
\* clear can reach; and an add whose id is already stored returns false
\* and leaves the store, so the stored item's text, embedding and
\* metadata, as it was.
C7_IdsUnique ==
    /\ []NoDuplicateIds
    /\ [][(memResult'.op = "add" /\ HasId(memory, memResult'.item_id))
              => (~memResult'.ret /\ memory' = memory)]_vars

\* C7, its case: an add with an id already stored, with another text than
\* the stored one and an embedding computed for it, was rejected.
C7_Witness ==
    /\ memResult.op = "add"
    /\ ~memResult.ret
    /\ memResult.embedding # <<>>
    /\ \E k \in 1..Len(memory) :
          /\ memory[k].id = memResult.item_id
          /\ memory[k].text # memResult.text
          /\ memory[k].embedding # memResult.embedding

\* C8: an add with a non-empty text and a non-empty id not yet stored
\* returns true and appends exactly one item at the end of the store,
\* whatever the embedding call does.
C8_FreshAddAppends ==
    [][(/\ memResult'.op = "add"
        /\ memResult'.item_id # <<>>
        /\ memResult'.text # <<>>
        /\ ~HasId(memory, memResult'.item_id))
           => /\ memResult'.ret
              /\ Len(memory') = Len(memory) + 1
              /\ SubSeq(memory', 1, Len(memory)) = memory
              /\ memory'[Len(memory')].id = memResult'.item_id
              /\ memory'[Len(memory')].text = memResult'.text]_vars

\* C9: an add with an empty id or an empty text returns false and leaves
\* the store unchanged, whatever the store holds.
C9_EmptyAddRejected ==
    [][(memResult'.op = "add"
        /\ (memResult'.item_id = <<>> \/ memResult'.text = <<>>))
           => (~memResult'.ret /\ memory' = memory)]_vars

\* C9, its case: such an add was made on a store that holds an item.
C9_Witness ==
    /\ memResult.op = "add"
    /\ (memResult.item_id = <<>> \/ memResult.text = <<>>)
    /\ ~memResult.ret
    /\ memory # <<>>

\* Where the item with this id stands in the store.
Position(item_id) == CHOOSE k \in 1..Len(memory) : memory[k].id = item_id

\* C10: the sequence search returns has non-increasing scores, and two
\* returned items of equal score stand in the order in which they were
\* inserted; the items returned are the front of that order, so an item
\* left out neither scores higher than a returned one nor ties with a
\* returned one inserted after it (with all scores equal, search(q, 1)
\* returns the first inserted item).
C10_SearchOrder ==
    memResult.op = "search"
        => LET r == memResult.result
               returned == {r[i].id : i \in 1..Len(r)}
               score(k) == CosineSimilarity(memResult.embedding,
                                            memory[k].embedding)
           IN  /\ \A i \in 1..(Len(r) - 1) :
                     ~ScoreLess(r[i].similarity_score,
                                r[i + 1].similarity_score)
               /\ \A i, j \in 1..Len(r) :
                     (i < j /\ r[i].similarity_score = r[j].similarity_score)
                         => Position(r[i].id) < Position(r[j].id)
               /\ \A i \in 1..Len(r), k \in 1..Len(memory) :
                     memory[k].id \notin returned
                         => /\ ~ScoreLess(r[i].similarity_score, score(k))
                            /\ r[i].similarity_score = score(k)
                                   => Position(r[i].id) < k

\* C10, its case: a search returned three items, the first two of equal
\* score and the third of a lower one, in another order than they are
\* stored in.
C10_Witness ==
    /\ memResult.op = "search"
    /\ Len(memResult.result) = 3
    /\ memResult.result[1].similarity_score
           = memResult.result[2].similarity_score
    /\ ScoreLess(memResult.result[3].similarity_score,
                 memResult.result[2].similarity_score)
    /\ memResult.result[3].id = memory[1].id

\* C11: a search returns exactly the first top_k entries of the ranked
\* list, all of them when there are fewer, and none when top_k is not
\* positive; so the result never has more than top_k items, and a search
\* with top_k = 0 returns nothing.
C11_SearchTruncates ==
    (memResult.op = "search" /\ memResult.embedding # <<>>)
        => LET ranked == SortByScoreDesc(ScoredItems(memory,
                                                     memResult.embedding))
               k == Max(memResult.top_k, 0)
           IN  /\ memResult.result = SubSeq(ranked, 1, Min(k, Len(ranked)))
               /\ Len(memResult.result) <= k
               /\ (memResult.top_k = 0 => memResult.result = <<>>)

\* C12: a stored item whose embedding has another length than the query
\* embedding never appears in the result of a search: it is skipped, not
\* returned with a score.
C12_MismatchedLengthSkipped ==
    memResult.op = "search"
        => \A k \in 1..Len(memResult.result) :
              Len(memResult.result[k].embedding) = Len(memResult.embedding)

-----------------------------------------------------------------------------
(* Properties of the embedding *)

\* The answers of the endpoint that give no usable embedding: the request
\* raised, the answer is an error payload, or its embedding field is missing
\* or is no list of numbers.
NoUsableEmbedding(answer) ==
    \/ answer.kind \in {"raise", "error"}
    \/ /\ answer.kind = "dict"
       /\ \/ answer.embedding.tag = "invalid"
          \/ (answer.embedding.tag = "none"
                 /\ answer.response.tag # "listtext")

\* C13: when the embedding capability raises or times out, answers with an
\* error payload, or answers with a payload whose embedding is missing or
\* invalid, the vector used for the text is the pseudo-embedding derived
\* from the text's hash, a unit vector that is the same for the same text;
\* it is never the all-zero vector while that derivation is possible.
C13_FallbackIsPseudoEmbedding ==
    (/\ memResult.op \in {"embed", "add", "search"}
     /\ memResult.text # <<>>
     /\ memResult.embedding # <<>>
     /\ NoUsableEmbedding(memResult.service))
        => /\ memResult.embedding = PseudoEmbedding(memResult.text)
           /\ memResult.embedding # ZeroVec

-----------------------------------------------------------------------------
(* Properties of the capture *)

\* C14: process_and_store_api_request never raises to its caller, whichever
\* collaborator fails: the session factory, the analysis call, the database
\* write, the indexing in memory, or the replay-code generation.
C14_CaptureNeverRaises ==
    capture.op = "capture" => ~capture.raised

\* The stored item with this id, of this type.
StoredAs(mem, item_id, type) ==
    \E k \in 1..Len(mem) :
        /\ mem[k].id = item_id
        /\ <<"type", <<type>>>> \in mem[k].metadata

\* The id of the api_request item of a request.
ApiId(request) == <<"api_">> \o request.method \o <<"_">> \o request.url

\* C15: when the relational write (add, commit or refresh) fails, the
\* transaction is rolled back, the session is closed, no exception escapes
\* the capture, and the api_request item of the request is indexed in
\* memory afterwards.
C15_WriteFailureIsolated ==
    (capture.op = "capture" /\ capture.write \in {"add", "commit", "refresh"})
        => /\ capture.rolled_back
           /\ capture.closed
           /\ ~capture.raised
           /\ StoredAs(memory, ApiId(capture.request), "api_request")

\* C16: persistence, the indexing of the api_request item, and the
\* generation and indexing of the replay code are independent: once the
\* analysis has returned, whatever fails in one of them, the other two are
\* still carried out and the one history line is still appended.
C16_StepsIndependent ==
    [][(capture'.op = "capture" /\ capture' # capture
            /\ capture'.analysis.kind = "returns")
          => /\ capture'.session # "not asked"
             /\ Len(capture'.added) >= 1
             /\ capture'.added[1] = ApiId(capture'.request)
             /\ capture'.replay.kind # "not called"
             /\ (capture'.replay.kind = "returns"
                    => /\ Len(capture'.added) = 2
                       /\ capture'.added[2]
                              = ApiId(capture'.request) \o <<"_replay">>)
             /\ action_history'
                    = Append(action_history,
                             <<"API CAPTURED: ">> \o capture'.request.method
                                 \o <<" ">> \o capture'.request.url)]_vars

\* Every collaborator of the last capture did its work: the analysis and
\* the replay code were returned, the session was obtained, the write went
\* through, and both embedding calls returned an embedding.
AllSucceeded(c) ==
    /\ c.op = "capture"
    /\ c.analysis.kind = "returns"
    /\ c.session = "session"
    /\ c.write = "ok"
    /\ c.replay.kind = "returns"
    /\ Len(c.embeddings) = 2
    /\ c.embeddings[1] # <<>>
    /\ c.embeddings[2] # <<>>

\* What C17 promises of a capture: both items are in memory under their ids
\* and types, and the captured list and the history grew by this request
\* and its line.
CaptureStored ==
    LET request == capture'.request
    IN  /\ StoredAs(memory', ApiId(request), "api_request")
        /\ StoredAs(memory', ApiId(request) \o <<"_replay">>,
                    "api_replay_code")
        /\ Len(memory') = Len(memory) + 2
        /\ captured_apis' = Append(captured_apis, request)
        /\ action_history'
               = Append(action_history,
                        <<"API CAPTURED: ">> \o request.method
                            \o <<" ">> \o request.url)

\* C17 as stated: after a capture with every collaborator succeeding, of a
\* (method, url) pair not captured before, memory holds the api_request item
\* under id X and the api_replay_code item under X + '_replay', and the
\* captured list and the history grew by exactly this request and one line.
C17_FreshPairStored ==
    [][(/\ captured_apis' # captured_apis
        /\ AllSucceeded(capture')
        /\ \A k \in 1..Len(captured_apis) :
              captured_apis[k] # capture'.request)
          => CaptureStored]_vars

\* C17, amended: the same for a request whose two ids, X and X + '_replay',
\* are not yet ids of stored items.
C17_FreshIdsStored ==
    [][(/\ captured_apis' # captured_apis
        /\ AllSucceeded(capture')
        /\ ~HasId(memory, ApiId(capture'.request))
        /\ ~HasId(memory, ApiId(capture'.request) \o <<"_replay">>))
          => CaptureStored]_vars

\* A capture that stored both of its items.
C17_Witness ==
    /\ AllSucceeded(capture)
    /\ capture.returned = <<TRUE, TRUE>>
    /\ StoredAs(memory, ApiId(capture.request) \o <<"_replay">>,
                "api_replay_code")

-----------------------------------------------------------------------------
(* Properties of the step loop *)

\* C18: a step is handed to the runner exactly when it is no navigation
\* step, or is one without a part that looks like a URL; every step leads
\* to one navigation or to one delegation, never to both and never to
\* neither, whatever current_url earlier steps left and whether or not the
\* navigation succeeded.
C18_NavigateXorDelegate ==
    /\ [](pc = "generate"
            => (~IsNavigationStep(CurrentStep) \/ UrlParts(CurrentStep) = <<>>))
    /\ [][(pc = "loop" /\ step_index <= Len(plan_steps))
            => pc' \in {"step_goto", "generate"}]_vars
    /\ [][pc = "step_goto" => pc' = "settle"]_vars

\* The tokens of a step that whitespace delimits.
Tokens(step) ==
    SelectSeq(Split([k \in 1..Len(step) |->
                        IF step[k] \in Whitespace THEN " " ELSE step[k]],
                    " "),
              LAMBDA token : token # <<>>)

\* The tokens that start with "http" or contain "www.".
UrlTokens(step) ==
    SelectSeq(Tokens(step),
              LAMBDA token : StartsWith(token, WordHttp)
                                 \/ Contains(token, WordWww))

\* C19: a step that contains "navigate", "go to" or "open" in any letter
\* case and has a whitespace-delimited token starting with "http" or
\* containing "www." causes exactly one navigation, to the first such token
\* as it stands, also when several tokens qualify.
C19_NavigatesToFirstUrlToken ==
    /\ [][(/\ pc = "loop"
           /\ step_index <= Len(plan_steps)
           /\ IsNavigationStep(CurrentStep)
           /\ UrlTokens(CurrentStep) # <<>>)
             => pc' = "step_goto"]_vars
    /\ [][pc = "step_goto"
             => /\ pc' # "step_goto"
                /\ (current_url' # current_url
                       => current_url' = UrlTokens(CurrentStep)[1])]_vars

\* The lines of a text: what lies between one "\n", or an end of the text,
\* and the next.
LineCount(text) == Cardinality({k \in 1..Len(text) : text[k] = "\n"}) + 1

\* Where line i ends: the position of the i-th "\n", or just after the text.
LineEnd(text, i) ==
    IF i = 0 THEN 0
    ELSE IF i = LineCount(text) THEN Len(text) + 1
    ELSE CHOOSE k \in 1..Len(text) :
             /\ text[k] = "\n"
             /\ Cardinality({j \in 1..k : text[j] = "\n"}) = i

Line(text, i) == SubSeq(text, LineEnd(text, i - 1) + 1, LineEnd(text, i) - 1)

\* A line without the whitespace before its first and after its last
\* character that is no whitespace; <<>> for a line of whitespace only.
Trimmed(line) ==
    LET solid == {k \in 1..Len(line) : line[k] \notin Whitespace}
    IN  IF solid = {} THEN <<>>
        ELSE SubSeq(line,
                    CHOOSE k \in solid : \A j \in solid : k <= j,
                    CHOOSE k \in solid : \A j \in solid : k >= j)

\* The steps a plan text stands for: its lines, trimmed, without the empty
\* ones, in their order.
StepsOfLines(text) ==
    SelectSeq([i \in 1..LineCount(text) |-> Trimmed(Line(text, i))],
              LAMBDA line : line # <<>>)

\* The absent plan is read like the empty text.
PlanText == IF plan.some THEN plan.text ELSE <<>>

\* C20: parsing the plan yields exactly its lines that are not empty after
\* trimming, each trimmed, in their order; a blank line yields no step, and
\* an absent or all-blank plan yields no steps at all. The steps stay as
\* parsed for the rest of the run.
C20_StepsAreTrimmedLines ==
    /\ [][(pc = "navigate" /\ pc' # "navigate")
            => /\ plan_steps' = StepsOfLines(PlanText)
               /\ \A k \in 1..Len(plan_steps') :
                     /\ plan_steps'[k] # <<>>
                     /\ plan_steps'[k][1] \notin Whitespace
                     /\ plan_steps'[k][Len(plan_steps'[k])] \notin Whitespace
               /\ ((\A k \in 1..Len(PlanText) : PlanText[k] \in Whitespace)
                      => plan_steps' = <<>>)]_vars
    /\ [][pc \notin {"idle", "navigate"} => plan_steps' = plan_steps]_vars

\* The plan with blank lines and padded lines has been parsed into its two
\* steps.
C20_Witness ==
    /\ plan = SomePlan(PlanTwoSteps)
    /\ pc = "loop"
    /\ plan_steps = << <<"S", "t", "e", "p", " ", "1">>,
                       <<"S", "t", "e", "p", " ", "2">> >>

-----------------------------------------------------------------------------
(* Properties of the default path and of recovery *)

\* navigate_and_learn has returned to its caller without raising.
NavigateReturned == pc = AfterNavigate /\ ~raised

\* The commands of one kind a driver was given, in order.
CommandsOf(d, name) == SelectSeq(d.commands, LAMBDA c : c.name = name)

\* The history entries that record a navigation, made or failed.
NavigationEvents(history) ==
    SelectSeq(history,
              LAMBDA entry_text : Head(entry_text) \in {"NAVIGATION: Went to ",
                                                        "NAVIGATION ERROR: "})

\* The history entries that record a submitted default search.
SearchSubmitEvents(history) ==
    SelectSeq(history,
              LAMBDA entry_text : Head(entry_text) = "DEFAULT: Searched for '")

\* What the default search of each goal with a trigger term submits.
ExpectedTerm ==
    IF user_goal = GoalSearchForCats THEN <<"f", "o", "r", " ", "c", "a", "t", "s">>
    ELSE <<"c", "a", "t", "s">>

IdleRun ==
    /\ user_goal = GoalBookAFlight
    /\ \/ pc = "navigate" /\ plan_steps' = <<>>
       \/ pc = "loop" /\ plan_steps = <<>>

\* C22: with an empty step sequence and a goal without a trigger term,
\* navigate_and_learn finishes with nothing executed: no command is given
\* to a browser, no driver is created, and the action history, the memory
\* store, current_url and page_content stay as they were.
C22_NothingExecuted ==
    [][IdleRun
       => /\ UNCHANGED <<action_history, memory, current_url, page_content,
                         driver>>
          /\ pc' \in {"loop", AfterNavigate}
          /\ ~raised']_vars

\* navigate_and_learn returned from a blank plan, not an absent one, with
\* everything as it was at construction.
C22_Witness ==
    /\ entry = "navigate"
    /\ pc = "done"
    /\ user_goal = GoalBookAFlight
    /\ plan.some /\ plan.text # <<>>
    /\ plan_steps = <<>>
    /\ driver = NoDriver
    /\ action_history = <<>>

\* C23: an exception that escapes the step loop is caught by
\* navigate_and_learn: handle_error is invoked exactly once for it, and
\* navigate_and_learn then returns normally, it does not raise.
C23_HandlerReturns ==
    /\ calls.handle_error <= 1
    /\ pc = "recover" => calls.handle_error = 0
    /\ pc = "recover_goto" => calls.handle_error = 1
    /\ calls.handle_error = 1 => ~raised \/ error.source = "summarize_results"

\* The last n commands a driver was given.
LastCommands(d, n) ==
    SubSeq(d.commands, Max(1, Len(d.commands) - n + 1), Len(d.commands))

\* C24: when an exception escaped the step loop and the goal contains a
\* trigger term, the recovery is the default search of the empty plan: one
\* navigation to the default search engine followed by one submission of
\* the derived term through the input named q.
C24_RecoveryIsDefaultSearch ==
    (/\ NavigateReturned
     /\ calls.handle_error = 1
     /\ user_goal \in {GoalSearchForCats, GoalFindCats}
     /\ driver.live)
    => /\ LastCommands(driver, 2)
            = << [name |-> "get", argument |-> DuckDuckGo],
                 [name |-> "exec",
                  argument |->
                      <<"search_input = ... By.NAME, 'q' ... send_keys('">>
                          \o ExpectedTerm
                          \o <<"') ... send_keys(Keys.RETURN)">>] >>
       /\ Len(NavigationEvents(action_history)) >= 1

-----------------------------------------------------------------------------
(* Properties of what a run knows *)

\* C25: every item indexed while a goal runs is in the store that
\* summarize_results, api_search and the semantic-memory search look into,
\* so an indexed capture is among the candidates summarize_results ranks.
C25_IndexedItemsAreSearched ==
    \A k \in 1..Len(memory) :
        \E j \in 1..Len(OrchestratorMemory) : OrchestratorMemory[j] = memory[k]

\* C26: after every executed plan step at which page content is available
\* and the UI analysis returned, the memory store gains one item for that
\* step, of type 'ui_analysis', whatever text the analysis returned.
C26_AnalysisIndexed ==
    [][(pc = "settle" /\ Truthy(page_content) /\ pc' = "loop")
       => /\ Len(memory') = Len(memory) + 1
          /\ SubSeq(memory', 1, Len(memory)) = memory
          /\ <<"type", <<"ui_analysis">>>> \in memory'[Len(memory')].metadata
          /\ <<"step", plan_steps[step_index]>> \in memory'[Len(memory')].metadata]_vars

-----------------------------------------------------------------------------
(* Properties of the browser fields *)

\* C28: after every browser action, a navigation or an execution of code,
\* made or failed, that leaves a browser session, current_url and
\* page_content are the session's current URL and page source.
C28_FieldsMirrorBrowser ==
    [][(driver' # driver /\ driver'.live)
       => /\ current_url' = driver'.current_url
          /\ page_content' = driver'.page_source]_vars

-----------------------------------------------------------------------------
(* Properties of the order of steps *)

\* The places of the loop at which a step is being executed.
StepPlaces == {"step_goto", "generate", "execute", "fix", "execute_fixed"}

\* C29: plan steps execute strictly one at a time, in plan order. The
\* 'PLAN STEP' entries of the history are the steps of the plan up to the
\* current one, in plan order; a step is recorded only at the head of the
\* loop, which is reached only from parsing or after the step before it
\* was settled (delay and UI analysis); the loop moves on by one step, and
\* only when it settles one; and whatever is generated or executed is for
\* the step recorded last.
C29_StepsOneAtATime ==
    /\ [](LET events == PlanStepEvents(action_history)
          IN  /\ Len(events) <= Len(plan_steps)
              /\ events = SubSeq(plan_steps, 1, Len(events))
              /\ pc \in StepPlaces \cup {"settle"} => Len(events) = step_index
              /\ pc = "loop" => Len(events) = step_index - 1)
    /\ [][Len(PlanStepEvents(action_history'))
              > Len(PlanStepEvents(action_history))
          => /\ pc = "loop"
             /\ pc' \in StepPlaces \cup {"settle"}
             /\ step_index' = step_index
             /\ Len(PlanStepEvents(action_history')) = step_index]_vars
    /\ [][(pc' = "loop" /\ pc # "loop")
          => pc \in {"navigate", "default_goto", "default_search", "settle"}]_vars
    /\ [][step_index' # step_index
          => /\ pc = "settle"
             /\ pc' = "loop"
             /\ step_index' = step_index + 1]_vars
    /\ [][(pc \in StepPlaces /\ pc' \in StepPlaces \cup {"settle"})
          => /\ step_index' = step_index
             /\ PlanStepEvents(action_history')
                    = PlanStepEvents(action_history)]_vars

\* The second of two different steps is being executed after the first
\* was executed and analysed.
C29_Witness ==
    /\ pc = "execute"
    /\ step_index = 2
    /\ Len(plan_steps) = 2
    /\ plan_steps[1] # plan_steps[2]
    /\ PlanStepEvents(action_history) = plan_steps
    /\ \E k \in 1..Len(memory) :
           /\ <<"type", <<"ui_analysis">>>> \in memory[k].metadata
           /\ <<"step", plan_steps[1]>> \in memory[k].metadata

-----------------------------------------------------------------------------
(* Properties of the goals of one Navigator *)

\* perform_web_goal of task q is between its start and its teardown.
InFlight(q) == runs[q].pc \in {"plan", "summarize"}

\* C27: the action history belongs to one run: a perform_web_goal that
\* starts when no other run is under way starts with an empty history, so
\* no entry of an earlier run is in its history or in what it passes on.
C27_RunStartsWithEmptyHistory ==
    [][\A r \in RunIds :
          (/\ runs[r].pc = "idle"
           /\ runs'[r].pc = "plan"
           /\ \A q \in RunIds : ~InFlight(q))
          => action_history' = <<>>]_vars

\* Task r makes this step, and in it drives the browser or tears it down.
ActsOnBrowser(r) ==
    /\ runs'[r] # runs[r]
    /\ \/ runs'[r].pc = "done"
       \/ runs'[r].pc = "summarize" /\ action_history' # action_history

\* C30: at most one goal is in flight on one Navigator: a run started
\* through navigate_web neither drives the browser nor tears it down
\* while an earlier run is between its start and its teardown.
C30_OneGoalInFlight ==
    [][\A r \in RunIds :
          ActsOnBrowser(r) => \A q \in 1..(r - 1) : ~InFlight(q)]_vars

-----------------------------------------------------------------------------
(* Properties of generate_text *)

\* C31: generate_text returns a payload for every task type and never
\* raises to its caller: when the request times out or fails in any other
\* way, a text type gets a dict with a fallback text that names the
\* failure, and the embedding type gets a dict with a fallback embedding.
C31_GenerateTextNeverRaises ==
    /\ memResult.op \in {"generate_text", "generate_embedding"}
          => memResult.result.kind # "raised"
    /\ (memResult.op = "generate_text" /\ memResult.service.kind = "timeout")
          => /\ memResult.result.kind = "dict"
             /\ memResult.result.response
                    = <<"[Fallback response - Ollama timeout for ">>
                          \o memResult.item_id \o <<"]">>
    /\ (memResult.op = "generate_text" /\ memResult.service.kind = "raise")
          => /\ memResult.result.kind = "dict"
             /\ memResult.result.response
                    = <<"[Error response - ">> \o memResult.service.text
                          \o <<"]">>
    /\ (memResult.op = "generate_text"
            /\ memResult.service.kind \notin {"timeout", "raise"})
          => /\ memResult.result.kind = memResult.service.kind
             /\ memResult.result.response = memResult.service.text
    /\ (memResult.op = "generate_embedding"
            /\ memResult.service.kind \in {"raise", "number"})
          => /\ memResult.result.kind = "dict"
             /\ memResult.result.embedding.tag = "list"
             /\ Len(memResult.result.embedding.list) = EmbDim
             /\ \A i \in 1..EmbDim : memResult.result.embedding.list[i] = 0
    /\ (memResult.op = "generate_embedding" /\ memResult.service.kind = "error")
          => /\ memResult.result.kind = "dict"
             /\ memResult.result.embedding.tag = "list"
             /\ Len(memResult.result.embedding.list) = EmbDim

\* The request of a call for a type that is not known timed out, and the
\* call returned its fallback.
C31_Witness ==
    /\ memResult.op = "generate_text"
    /\ memResult.item_id = <<"vision">>
    /\ memResult.service.kind = "timeout"
    /\ memResult.result.kind = "dict"
    /\ memResult.result.model = "general_model"


-----------------------------------------------------------------------------
(* Properties of the similarity *)

AllZero(vec) == \A i \in 1..Len(vec) : vec[i] = 0

\* The vector with every component negated.
Negated(vec) == [i \in 1..Len(vec) |-> 0 - vec[i]]

\* C32: _cosine_similarity(a, b) is 0 whenever a or b is empty or all-zero
\* or the two lengths differ; so in a search an item stored with the zero
\* vector scores 0 against every query, and a zero query vector scores 0
\* against every item.
C32_DegenerateScoresZero ==
    /\ (/\ memResult.op = "cosine"
        /\ \/ memResult.vec1 = <<>> \/ memResult.vec2 = <<>>
           \/ AllZero(memResult.vec1) \/ AllZero(memResult.vec2)
           \/ Len(memResult.vec1) # Len(memResult.vec2))
       => /\ memResult.value = [num |-> 0, den |-> 1]
          /\ memResult.mirrored = [num |-> 0, den |-> 1]
          /\ memResult.score = [num |-> 0, den |-> 1]
    /\ memResult.op = "search"
       => \A k \in 1..Len(memResult.result) :
              (AllZero(memResult.result[k].embedding)
                   \/ AllZero(memResult.embedding))
              => memResult.result[k].similarity_score = [num |-> 0, den |-> 1]

\* The similarity of a non-zero vector and a shorter non-zero vector that
\* is its beginning was computed.
C32_Witness ==
    /\ memResult.op = "cosine"
    /\ memResult.vec1 = <<1, 0>>
    /\ memResult.vec2 = <<1>>
    /\ memResult.score = [num |-> 0, den |-> 1]

\* The two vectors of a call have a cosine: same length, none all-zero.
HaveCosine ==
    /\ memResult.op = "cosine"
    /\ memResult.vec1 # <<>>
    /\ Len(memResult.vec1) = Len(memResult.vec2)
    /\ ~AllZero(memResult.vec1)
    /\ ~AllZero(memResult.vec2)

\* C33: for non-zero vectors of equal length the cosine similarity is
\* symmetric, cosine(v, v) = 1 and cosine(v, -v) = -1.
C33_SymmetricOneMinusOne ==
    HaveCosine
    => /\ memResult.value = memResult.mirrored
       /\ memResult.vec1 = memResult.vec2
              => memResult.value = [num |-> 1, den |-> 1]
       /\ memResult.vec1 = Negated(memResult.vec2)
              => memResult.value = [num |-> -1, den |-> 1]

\* The distance of a value from a whole number n is at most k units in
\* the last place of the mantissa.
Within(value, n, k) ==
    Abs(value.num - n * value.den) * Pow2(MantissaBits) <= k * value.den

\* C33, as it holds: for non-zero vectors of equal length the similarity
\* is symmetric to the last bit; cosine(v, v) and cosine(v, -v) are 1 and
\* -1 up to the rounding of two square roots, a product and a quotient,
\* at most five units of 2^-MantissaBits away, and are exactly 1 and -1
\* when the squared magnitude of v is the square of a whole number.
C33_SymmetricAndNearOne ==
    HaveCosine
    => /\ memResult.value = memResult.mirrored
       /\ memResult.vec1 = memResult.vec2
              => /\ Within(memResult.value, 1, 5)
                 /\ (\E n \in 1..8 :
                        DotProduct(memResult.vec1, memResult.vec1) = n * n)
                    => memResult.value = [num |-> 1, den |-> 1]
       /\ memResult.vec1 = Negated(memResult.vec2)
              => /\ Within(memResult.value, -1, 5)
                 /\ (\E n \in 1..8 :
                        DotProduct(memResult.vec1, memResult.vec1) = n * n)
                    => memResult.value = [num |-> -1, den |-> 1]

\* The similarity of <<1, 1>> with itself came out below 1.
C33_Witness ==
    /\ HaveCosine
    /\ memResult.vec1 = <<1, 1>>
    /\ memResult.vec2 = <<1, 1>>
    /\ memResult.value # [num |-> 1, den |-> 1]
    /\ Within(memResult.value, 1, 5)

-----------------------------------------------------------------------------
(* Properties of the recovery plan *)

\* A text holds a piece of the recovery plan.
Mentions(text, recovery_plan) ==
    \E i \in 1..Len(text) : \E j \in 1..Len(recovery_plan) :
        text[i] = recovery_plan[j]

\* C34: the text handle_error returns is never passed to
\* execute_selenium_code nor used as a navigation target; the call of
\* handle_error changes nothing of the navigator (history, current_url,
\* page_content, driver, memory); and once handle_error was called the
\* only command the run gives the browser is the navigation to the search
\* url built from the goal, given when the goal has a trigger term.
C34_RecoveryPlanIsOnlyShown ==
    /\ [](calls.recovery_plan # NoneText
          => /\ \A i \in 1..Len(driver.commands) :
                    ~Mentions(driver.commands[i].argument, calls.recovery_plan)
             /\ ~Mentions(current_url, calls.recovery_plan)
             /\ \A k \in 1..Len(action_history) :
                    ~Mentions(action_history[k], calls.recovery_plan))
    /\ [][pc = "recover"
          => /\ action_history' = action_history
             /\ current_url' = current_url
             /\ page_content' = page_content
             /\ driver' = driver
             /\ memory' = memory
             /\ plan_steps' = plan_steps
             /\ step_index' = step_index]_vars
    /\ [][(calls.handle_error = 1 /\ driver'.commands # driver.commands
               /\ driver'.live)
          => /\ pc = "recover_goto"
             /\ HasSearchIntent(user_goal)
             /\ driver'.commands
                    = Append(IF driver.live THEN driver.commands ELSE <<>>,
                             [name |-> "get",
                              argument |-> DuckDuckGo \o <<"?", "q", "=">>
                                               \o SpacesToPlus(ExpectedTerm)])
            ]_vars

\* handle_error returned a recovery plan and the handler then navigated to
\* the search url.
C34_Witness ==
    /\ calls.handle_error = 1
    /\ calls.recovery_plan = <<"recovery plan">>
    /\ pc = AfterNavigate
    /\ driver.live
    /\ Len(driver.commands) >= 1
    /\ driver.commands[Len(driver.commands)].name = "get"
    /\ current_url = DuckDuckGo \o <<"?", "q", "=">> \o SpacesToPlus(ExpectedTerm)

-----------------------------------------------------------------------------
(* Properties of the operations called in any order *)

IsPrefix(earlier, later) ==
    /\ Len(earlier) <= Len(later)
    /\ SubSeq(later, 1, Len(earlier)) = earlier

\* C35: across any sequence of operations of the navigator the action
\* history only grows: its value before an operation is a prefix of its
\* value after it, so no entry is removed, moved or rewritten.
C35_HistoryOnlyGrows == [][IsPrefix(action_history, action_history')]_vars

\* A history of at least four entries, made by a navigation and the step
\* runner, and kept by close_browser.
C35_Witness ==
    /\ entry = "close_browser"
    /\ Len(action_history) >= 4
    /\ \E i, j \in 1..Len(action_history) :
          /\ Head(action_history[i]) = "NAVIGATION: Went to "
          /\ Head(action_history[j]) = "GENERATED CODE: "

-----------------------------------------------------------------------------
(* Properties of interleaved adds *)

\* The calls with one id that have returned True.
Winners(item_id) ==
    {c \in AddCalls : /\ adding[c].phase = "done"
                      /\ adding[c].item_id = item_id
                      /\ adding[c].ret}

NoTwoItemsWithOneId ==
    \A i, j \in 1..Len(memory) : memory[i].id = memory[j].id => i = j

-----------------------------------------------------------------------------
(* Properties of the browser session *)

\* An operation gave the driver in the field a command.
CommandGiven ==
    /\ driver'.live
    /\ driver'.commands # <<>>
    /\ driver'.commands
           = Append(IF driver.live THEN driver.commands ELSE <<>>,
                    driver'.commands[Len(driver'.commands)])

\* C37: whenever go_to_url or execute_selenium_code gives a command to
\* selenium_manager.driver, that driver is live: it was created and has
\* not been quit, whatever calls of go_to_url, execute_selenium_code,
\* close_browser and extract_page_content came before.
C37_CommandsReachLiveDriver ==
    [][(entry' \in {"go_to_url", "execute_selenium_code"} /\ CommandGiven)
       => ~driver'.quit]_vars

-----------------------------------------------------------------------------
(* Properties of repeated captures *)

\* The stored items of one type that a capture of the request made.
ItemsOf(mem, type, request) ==
    SelectSeq(mem, LAMBDA item :
                       item.metadata = MetaOrEmpty(CaptureMeta(type, request)))

WasCaptured(request) ==
    \E k \in 1..Len(captured_apis) : captured_apis[k] = request

\* C38: after each capture of a request the store holds exactly one
\* api_request item and exactly one api_replay_code item for its method
\* and url; they are those of the first capture of the pair, with its
\* text; and each capture adds one entry to the list of captured requests
\* and one to the action history.
C38_OnePairOfItemsPerRequest ==
    [][\A request \in Requests :
          captured_apis' = Append(captured_apis, request)
          => /\ Len(ItemsOf(memory', "api_request", request)) = 1
             /\ Len(ItemsOf(memory', "api_replay_code", request)) = 1
             /\ ~WasCaptured(request)
                   => ItemsOf(memory', "api_request", request)[1].text
                          = SemanticText(request, capture'.analysis.text)
             /\ WasCaptured(request)
                   => /\ ItemsOf(memory', "api_request", request)
                             = ItemsOf(memory, "api_request", request)
                      /\ ItemsOf(memory', "api_replay_code", request)
                             = ItemsOf(memory, "api_replay_code", request)
             /\ action_history'
                    = Append(action_history, CapturedLine(request))]_vars

\* A step of go_to_url: every call of it writes one entry. (A capture
\* writes one too, and leaves entry as it is.)
GoToUrlStep ==
    /\ entry' = "go_to_url"
    /\ action_history' # action_history
    /\ captured_apis' = captured_apis

\* C39: go_to_url never raises. When create_driver or driver.get fails it
\* appends exactly one NAVIGATION ERROR entry and leaves current_url,
\* page_content and the store as they were; when it succeeds it appends
\* exactly one NAVIGATION entry and sets current_url and page_content from
\* the driver.
C39_GoToUrlRecordsAndReturns ==
    [][GoToUrlStep
       => /\ ~raised'
          /\ Len(action_history') = Len(action_history) + 1
          /\ SubSeq(action_history', 1, Len(action_history)) = action_history
          /\ error'.source \in {"create_raises", "get_raises"}
                => /\ Head(action_history'[Len(action_history')])
                          = "NAVIGATION ERROR: "
                   /\ current_url' = current_url
                   /\ page_content' = page_content
                   /\ memory' = memory
          /\ error' = NoError
                => /\ action_history'[Len(action_history')]
                          = <<"NAVIGATION: Went to ">> \o driver'.current_url
                   /\ driver'.live /\ ~driver'.quit
                   /\ current_url' = driver'.current_url
                   /\ page_content' = driver'.page_source]_vars

\* A navigation failed at driver.get after an earlier one had succeeded:
\* the fields still show the earlier page.
C39_Witness ==
    /\ entry = "go_to_url"
    /\ error.source = "get_raises"
    /\ ~raised
    /\ Len(action_history) = 2
    /\ Head(action_history[1]) = "NAVIGATION: Went to "
    /\ Head(action_history[2]) = "NAVIGATION ERROR: "
    /\ current_url = <<"http://a/x">>
    /\ driver.commands[Len(driver.commands)].argument = <<"http://a/x", "_replay">>

-----------------------------------------------------------------------------
(* Properties of termination *)

\* navigate_and_learn is not over and the next of its calls can be made,
\* whatever the call does. The default search and the navigation of the
\* handler have no condition but their place: each has an outcome.
NavigateGoesOn ==
    /\ pc = "navigate" =>
          ENABLED (\E payload \in RunPayloads : ParseSteps(payload))
    /\ pc = "default_goto" =>
          ENABLED (\E outcome \in GoToUrlOutcomes(NavState),
                      payload \in RunPayloads : DefaultGoTo(outcome, payload))
    /\ pc = "default_search" => ExecuteOutcomes(NavState) # {}
    /\ pc = "step_goto" =>
          ENABLED (\E outcome \in GoToUrlOutcomes(NavState),
                      payload \in RunPayloads : StepGoTo(outcome, payload))
    /\ pc = "recover_goto" => GoToUrlOutcomes(NavState) # {}
    /\ RunGoesOn

\* navigate_and_learn has returned or raised.
NavigateOver ==
    /\ entry \in {"navigate", "perform"}
    /\ pc \in {"summarize", "finally", "done"}
    /\ plan # NonePlan \/ user_goal # <<>>

\* C40: for every plan and every outcome of the calls to the planner, the
\* coder, the browser and the store, navigate_and_learn comes to its end:
\* while it is not over its next call can be made, and every step takes it
\* further in the order of its places, which is finite. It ends after the
\* default fallback or the completed loop, or through the recovery path;
\* within one plan step the code is executed at most twice, and
\* handle_error is called at most once.
C40_NavigateTerminates ==
    /\ [](NavigateGoesOn
          /\ attempt.executions <= 2
          /\ attempt.fixes <= 1
          /\ calls.handle_error <= 1
          /\ step_index <= Len(plan_steps) + 1
          /\ (NavigateOver /\ calls.handle_error = 0)
                => step_index = Len(plan_steps) + 1)
    /\ [][Further(Progress(pc, step_index), Progress(pc', step_index'))
          /\ (attempt'.executions > attempt.executions
                 => pc \in {"execute", "execute_fixed"})
          /\ (pc # "loop" => attempt'.executions >= attempt.executions)]_vars

\* navigate_and_learn, called with a plan of two steps, is over: the two
\* executions of a step failed, the analysis after it raised, and the
\* recovery ended the run.
C40_Witness ==
    /\ entry = "navigate"
    /\ pc = "done"
    /\ Len(plan_steps) = 2
    /\ attempt.executions = 2
    /\ attempt.second = "failed"
    /\ calls.handle_error = 1
    /\ ~raised

=============================================================================
